---- MODULE Spec2Model ----
(***************************************************************************)
(* Model of the repository sync orchestrator                               *)
(* (scripts/repo-sync-orchestrator.ts, the SocketCLI variant, lines        *)
(* 477-1217) with the collaborators it drives: the command-line parser,    *)
(* the configuration loader, the GitHub client, the git wrapper and the    *)
(* Socket CLI client.                                                      *)
(*                                                                         *)
(* One run of the program is one behaviour.  Every await of the run is a   *)
(* step: the answer of the awaited collaborator (GitHub API, git           *)
(* subprocess, socket CLI, filesystem) is drawn with \E from the answers   *)
(* the collaborator's code can produce.                                    *)
(***************************************************************************)
EXTENDS Integers, Sequences, FiniteSets, TLC

VARIABLES
    pc,               \* position of run(): "start" ... "exited"
    args,             \* process.argv.slice(2)
    env,              \* process.env (the variables the program reads)
    config,           \* this.config (NoConfig until loadConfig returned)
    isAuthenticated,  \* SocketCLIAuth.isAuthenticated
    checks,           \* run(): the answers githubAuthOk, socketLoginOk,
                      \* socketAuthOk, orgOk obtained so far, in order
    archivedRepos,    \* result of listArchivedRepositories()
    index,            \* loop index of run(), 1-based
    results,          \* results: OperationResult[]
    stage,            \* position of processRepository() for archivedRepos[index]
    steps,            \* steps: StepResult[] of the repository in progress
    deletionFailed,   \* local deletionFailed of processRepository
    error,            \* the error caught by processRepository ("none" if none)
    ret,              \* value of the pending return statement (NoResult if none)
    deletionRecords,  \* this.deletionRecords
    report,           \* SummaryReport (NoReport until generated)
    exitCode,         \* argument of process.exit (-1 while running)
    ghArchived,       \* GitHub: archived flag of each repository
    calls,            \* external state-changing calls issued so far, in order
                      \* (and the fatal error logged by the catch of run());
                      \* in the runs of the logger alone, the calls of its
                      \* methods: the level and the message
    sleeps,           \* the backoff sleeps so far: attempt number and delay
    attempt,          \* an external call followed on its own (NoAttempt if
                      \* none): a retrying network call attempt by attempt
                      \* (the operation, its `retries` parameter, the errors
                      \* caught so far and its status), or the subprocess of
                      \* a socket CLI command (how it ends, what it prints)
    previous,         \* what an earlier run of the program against the same
                      \* organization produced (NoPrevious if there is none)
    logger            \* the Logger: its logLevel, its buffer `logs`, its
                      \* currentStep, and the lines written to the console

vars == << pc, args, env, config, isAuthenticated, checks, archivedRepos, index, results,
           stage, steps, deletionFailed, error, ret, deletionRecords, report,
           exitCode, ghArchived, calls, sleeps, attempt, previous, logger >>

retryVars == << sleeps, attempt, previous, logger >>

----------------------------------------------------------------------------
(* Bounds *)

\* number of repositories of the organization on the GitHub server
MaxRepos == 2

\* largest number of consecutive failing `git push` subprocesses drawn
MaxPushFails == 4

\* largest attempt number handed to calculateBackoffDelay, and number of
\* delays computed, when the function is applied alone
MaxAttempt == 20
MaxSleeps == 2

\* length of the longest organization name drawn
MaxOrgLen == 41

\* number of pages of the longest repository listing drawn
MaxPages == 2

\* number of calls of the logger's methods in the runs of the logger alone
MaxLogCalls == 3

----------------------------------------------------------------------------
(* Program constants *)

MAX_RETRIES == 3

\* calculateBackoffDelay: Math.min(1000 * 2 ** attemptNumber, 30_000)
BACKOFF_BASE_MS == 1000
BACKOFF_CAP_MS == 30000

NoConfig == [loaded |-> FALSE]
NoResult == [none |-> TRUE]
NoReport == [generated |-> FALSE]
NoAttempt == [op |-> "none"]
NoPrevious == [ran |-> FALSE]

\* Repository names; repository n of the organization is named RepoName(n).
RepoIds == 1..MaxRepos
RepoName(n) == n
RepoNames == {RepoName(n) : n \in RepoIds}

----------------------------------------------------------------------------
(* Strings.  A string the program inspects character by character is a     *)
(* sequence of one-character strings.                                      *)

\* String.prototype.trim for the blank " "
RECURSIVE TrimLeft(_)
TrimLeft(s) == IF s # <<>> /\ Head(s) = " " THEN TrimLeft(Tail(s)) ELSE s
RECURSIVE TrimRight(_)
TrimRight(s) ==
    IF s # <<>> /\ s[Len(s)] = " " THEN TrimRight(SubSeq(s, 1, Len(s) - 1)) ELSE s
Trim(s) == TrimRight(TrimLeft(s))

AlphaNum == {"a", "b", "Z", "0"}

\* ORG_NAME_REGEX = /^[a-zA-Z0-9]([a-zA-Z0-9-]{0,38}[a-zA-Z0-9])?$/ :
\* one alphanumeric, then optionally up to ORG_MIDDLE_MAX characters and one
\* more alphanumeric.
ORG_MIDDLE_MAX == 38

isValidOrgName(name) ==
    /\ Len(name) >= 1
    /\ Len(name) <= 1 + ORG_MIDDLE_MAX + 1
    /\ name[1] \in AlphaNum
    /\ name[Len(name)] \in AlphaNum
    /\ \A i \in 1..Len(name) : name[i] \in AlphaNum \cup {"-"}

----------------------------------------------------------------------------
(* Command line: parseCliArgs.  An argument is its number of leading       *)
(* dashes (0, 1, or 2 for "two or more") and the text after them.          *)

Arg(d, r) == [dashes |-> d, rest |-> r]
DRY_RUN_FLAG == Arg(2, "dry-run")
CHECK_CONFIG_FLAG == Arg(2, "check-config")
EXTRA_ARG == Arg(0, "extra")

BoolTrue == [bool |-> TRUE]
StrValue(a) == [str |-> a]

Put(f, k, v) == [x \in (DOMAIN f) \cup {k} |-> IF x = k THEN v ELSE f[x]]
EmptyRecord == [x \in {} |-> BoolTrue]

\* nextArg && !nextArg.startsWith("--")
IsValueArg(a) == ~(a.dashes = 0 /\ a.rest = "") /\ a.dashes # 2

RECURSIVE parseLoop(_, _, _)
parseLoop(as, i, parsed) ==
    IF i > Len(as) THEN parsed
    ELSE IF as[i].dashes = 2
         THEN IF i + 1 <= Len(as) /\ IsValueArg(as[i + 1])
              THEN parseLoop(as, i + 2, Put(parsed, as[i].rest, StrValue(as[i + 1])))
              ELSE parseLoop(as, i + 1, Put(parsed, as[i].rest, BoolTrue))
         ELSE IF as[i].dashes = 1
              THEN parseLoop(as, i + 1, Put(parsed, as[i].rest, BoolTrue))
              ELSE parseLoop(as, i + 1, parsed)

parseCliArgs(as) == parseLoop(as, 1, EmptyRecord)

\* cliArgs[key] === true
FlagIsTrue(cliArgs, key) == key \in DOMAIN cliArgs /\ cliArgs[key] = BoolTrue

\* the argument lists of the runs explored
Argvs ==
    { <<>>,
      <<DRY_RUN_FLAG>>,
      <<CHECK_CONFIG_FLAG>>,
      <<DRY_RUN_FLAG, EXTRA_ARG>>,
      <<CHECK_CONFIG_FLAG, EXTRA_ARG>>,
      <<DRY_RUN_FLAG, CHECK_CONFIG_FLAG>> }

----------------------------------------------------------------------------
(* Environment and configuration: loadConfig / validateConfig.  An unset   *)
(* variable and an empty one are both the empty string: the code reads     *)
(* every variable as `process.env.X?.trim() || default`.                   *)

EnvBase ==
    [ GITHUB_TOKEN     |-> <<"g">>,
      SOCKET_API_TOKEN |-> <<"s">>,
      GITHUB_ORG       |-> <<"a", "-", "b">>,
      SOCKET_ORG       |-> <<" ", "Z", "0">>,
      DRY_RUN          |-> <<>>,
      SOCKET_CLI_API_TOKEN |-> <<>>,
      SOCKET_CLI_ORG_SLUG  |-> <<>> ]

Envs ==
    { EnvBase,
      [EnvBase EXCEPT !.DRY_RUN = <<"t", "r", "u", "e">>],
      [EnvBase EXCEPT !.GITHUB_ORG = <<"-", "a">>],
      [EnvBase EXCEPT !.SOCKET_API_TOKEN = <<" ">>] }

\* the list `errors` of validateConfig (URLs and base path are left at their
\* defaults, which validate)
validateConfig(c) ==
    (IF c.githubToken = <<>> THEN <<"GITHUB_TOKEN">> ELSE <<>>)
    \o (IF c.socketApiToken = <<>> THEN <<"SOCKET_API_TOKEN">> ELSE <<>>)
    \o (IF c.githubOrg = <<>> \/ ~isValidOrgName(c.githubOrg)
        THEN <<"GITHUB_ORG">> ELSE <<>>)
    \o (IF c.socketOrg = <<>> \/ ~isValidOrgName(c.socketOrg)
        THEN <<"SOCKET_ORG">> ELSE <<>>)

loadConfig(e, isDryRun) ==
    [ loaded         |-> TRUE,
      githubToken    |-> Trim(e.GITHUB_TOKEN),
      socketApiToken |-> Trim(e.SOCKET_API_TOKEN),
      githubOrg      |-> Trim(e.GITHUB_ORG),
      socketOrg      |-> Trim(e.SOCKET_ORG),
      dryRun         |-> isDryRun ]

----------------------------------------------------------------------------
(* Records of the run *)

\* StepResult {name, success}
StepResult(n, ok) == [name |-> n, success |-> ok]

\* OperationResult {repoName, success, steps, error}
OperationResult(n, ok, st, err) ==
    [repoName |-> n, success |-> ok, steps |-> st, error |-> err]

\* a DeletionRecord that reports success whatever the outcome
DeletionRecord_alwaysSuccess(n, ok, message) ==
    [repoName |-> n, success |-> TRUE, message |-> message]

\* DeletionRecord {repoName, success, message}
DeletionRecord(n, ok, message) == [repoName |-> n, success |-> ok, message |-> message]

\* one external state-changing call: the operation and the repository
Call(op, n) == [op |-> op, repo |-> n]

\* the answer of one precondition check of run(), under the name of the
\* local constant that holds it
Check(n, ok) == [name |-> n, ok |-> ok]

\* the GitHubRepository descriptor built by listArchivedRepositories
Descriptor(n) == [name |-> n, archived |-> TRUE]

repo == archivedRepos[index]

\* a step named n is present in the step list st
HasStep(st, n) == \E i \in 1..Len(st) : st[i].name = n

\* lines 708-710: steps.some((s) => s.name === "Delete Repository" && !s.success)
someDeletionFailed(st) ==
    \E i \in 1..Len(st) : st[i].name = "Delete Repository" /\ ~st[i].success

\* what a run leaves to a later run: its results, its deletion records and
\* whether it was a dry run
Previous(rs, dr, isDryRun) ==
    [ran |-> TRUE, results |-> rs, deletionRecords |-> dr, dryRun |-> isDryRun]

\* origin already holds the socket.yml commit of repository n: an earlier
\* run pushed it
PushedBefore(n) ==
    /\ previous.ran
    /\ ~previous.dryRun
    /\ \E i \in 1..Len(previous.results) :
          /\ previous.results[i].repoName = n
          /\ \E k \in 1..Len(previous.results[i].steps) :
                previous.results[i].steps[k] = StepResult("Push", TRUE)

\* the runs explored: every command line with the base environment, every
\* environment with the empty command line, and every command line with
\* the environments that do not validate
Explored(as, e) ==
    \/ as = <<>>
    \/ e = EnvBase
    \/ validateConfig(loadConfig(e, FALSE)) # <<>>

----------------------------------------------------------------------------
(* The Logger (utils/logger.ts).  A message is a string; a line of the     *)
(* console is the upper-cased level in brackets and the message (the       *)
(* timestamp, the colour and the metadata are left out).                   *)

DEFAULT_LOG_LEVEL == "info"

\* `levels` of shouldLog
LEVELS == << "debug", "info", "warn", "error" >>

\* Array.prototype.indexOf, 0-based, -1 when absent
indexOf(seq, x) ==
    IF \E i \in 1..Len(seq) : seq[i] = x
    THEN (CHOOSE i \in 1..Len(seq) : seq[i] = x /\ \A j \in 1..(i - 1) : seq[j] # x) - 1
    ELSE -1

\* String.prototype.toUpperCase on the level names
toUpperCase(level) ==
    CASE level = "debug"   -> "DEBUG"
      [] level = "info"    -> "INFO"
      [] level = "warn"    -> "WARN"
      [] level = "error"   -> "ERROR"
      [] level = "success" -> "SUCCESS"

NoStep == [none |-> TRUE]

\* new Logger(logLevel)
Logger(logLevel) ==
    [logLevel |-> logLevel, logs |-> <<>>, currentStep |-> NoStep, console |-> <<>>]

\* LogEntry {level, message}
LogEntry(level, message) == [level |-> level, message |-> message]

\* the line `[LEVEL] timestamp - message` written by console.log
ConsoleLine(level, message) == [tag |-> toUpperCase(level), message |-> message]

\* shouldLog that knows the success level, ranked with info
shouldLog_successAsInfo(level, logLevel) ==
    indexOf(LEVELS, IF level = "success" THEN "info" ELSE level)
        >= indexOf(LEVELS, logLevel)

\* Logger.shouldLog(level) (lines 25-28) of a logger at `logLevel`
shouldLog(level, logLevel) == indexOf(LEVELS, level) >= indexOf(LEVELS, logLevel)

\* Logger.logToConsole (lines 30-50)
logToConsole(lg, level, message) ==
    IF ~shouldLog(level, lg.logLevel) THEN lg
    ELSE [lg EXCEPT !.console = Append(@, ConsoleLine(level, message))]

\* `this.logs.push({level, message, ...})`
logsPush(lg, level, message) ==
    [lg EXCEPT !.logs = Append(@, LogEntry(level, message))]

\* Logger.info / warn / error / debug (lines 52-107): the four methods are
\* the same but for the level
loggerWrite(lg, level, message) ==
    IF ~shouldLog(level, lg.logLevel) THEN lg
    ELSE logsPush(logToConsole(lg, level, message), level, message)

\* Logger.success (lines 109-117)
loggerSuccess(lg, message) ==
    logsPush(logToConsole(lg, "success", message), "success", message)

\* Logger.startStep (lines 119-125)
startStep(lg, stepName) ==
    loggerWrite([lg EXCEPT !.currentStep = [name |-> stepName]], "debug",
                "Starting step: " \o stepName)

\* the message endStep logs: `message || name + " completed"`, and for a
\* success the duration after it
endStepMessage(lg, ok, message) ==
    LET logMessage == IF message # "" THEN message ELSE lg.currentStep.name \o " completed"
    IN  IF ok THEN logMessage \o " (ms)" ELSE logMessage

\* Logger.endStep (lines 127-143)
endStep(lg, ok, message) ==
    IF lg.currentStep = NoStep
    THEN loggerWrite(lg, "warn", "endStep called without startStep")
    ELSE LET logged == IF ok
                       THEN loggerSuccess(lg, endStepMessage(lg, ok, message))
                       ELSE loggerWrite(lg, "error", endStepMessage(lg, ok, message))
         IN  [logged EXCEPT !.currentStep = NoStep]

----------------------------------------------------------------------------
(* Initial state: the process has started, nothing has run yet.  Every     *)
(* repository of the organization may be archived or not on GitHub.        *)

Init ==
    /\ pc = "start"
    /\ args \in Argvs
    /\ env \in Envs
    /\ Explored(args, env)
    /\ config = NoConfig
    /\ isAuthenticated = FALSE
    /\ checks = <<>>
    /\ archivedRepos = <<>>
    /\ index = 1
    /\ results = <<>>
    /\ stage = "idle"
    /\ steps = <<>>
    /\ deletionFailed = FALSE
    /\ error = "none"
    /\ ret = NoResult
    /\ deletionRecords = <<>>
    /\ report = NoReport
    /\ exitCode = -1
    /\ ghArchived \in [RepoNames -> BOOLEAN]
    /\ calls = <<>>
    /\ sleeps = <<>>
    /\ attempt = NoAttempt
    /\ previous = NoPrevious
    /\ logger = Logger(DEFAULT_LOG_LEVEL)

\* a process.exit that returns to its caller: the process stays alive
Exit_returns(code) == pc' = "returned" /\ exitCode' = code

\* process.exit(code)
Exit(code) == pc' = "exited" /\ exitCode' = code

pipelineVars == << stage, steps, deletionFailed, error, ret, deletionRecords >>
localVars == << stage, steps, deletionFailed, error, ret >>
loopVars == << archivedRepos, index, results >>

----------------------------------------------------------------------------
(* run(): start-up, lines 513-627 *)

\* lines 515-530: parse the command line, load and validate the configuration
\* (validateConfig exits 1 on errors), handle --check-config
runLoadConfig ==
    /\ pc = "start"
    /\ LET cliArgs     == parseCliArgs(args)
           isDryRun    == FlagIsTrue(cliArgs, "dry-run")
           checkConfig == FlagIsTrue(cliArgs, "check-config")
           c           == loadConfig(env, isDryRun)
       IN  IF validateConfig(c) # <<>>
           THEN Exit(1) /\ UNCHANGED config
           ELSE /\ config' = c
                /\ IF checkConfig
                   THEN Exit(0)
                   ELSE pc' = "verifyAuth" /\ UNCHANGED exitCode
    /\ UNCHANGED << retryVars, args, env, isAuthenticated, checks, loopVars, pipelineVars,
                    report, ghArchived, calls >>

\* lines 557-563: gitHub.verifyAuth() answers true or false
runVerifyAuth ==
    /\ pc = "verifyAuth"
    /\ \E githubAuthOk \in BOOLEAN :
          /\ checks' = Append(checks, Check("githubAuthOk", githubAuthOk))
          /\ IF githubAuthOk THEN pc' = "login" /\ UNCHANGED exitCode ELSE Exit(1)
    /\ UNCHANGED << retryVars, args, env, config, isAuthenticated, loopVars, pipelineVars,
                    report, ghArchived, calls >>

\* what the user may type at the prompt of promptForToken
TypedTokens == { <<>>, <<" ">>, <<" ", "p">> }

\* cli-auth.ts 110-131 promptForToken: token?.trim() || undefined
promptForToken(typed) == Trim(typed)

\* cli-auth.ts 24-34: the token given, else SOCKET_API_TOKEN of the
\* environment trimmed, else (on an interactive terminal) the token typed
tokenToUse(apiToken, e, isInteractive, typed) ==
    IF apiToken # <<>> THEN apiToken
    ELSE IF Trim(e.SOCKET_API_TOKEN) # <<>> THEN Trim(e.SOCKET_API_TOKEN)
    ELSE IF isInteractive THEN promptForToken(typed)
    ELSE <<>>

\* SocketCLIAuth.login(apiToken, orgSlug): true iff some token is found
login(apiToken, e, isInteractive, typed) ==
    tokenToUse(apiToken, e, isInteractive, typed) # <<>>

\* cli-auth.ts 45-50: process.env after a login that succeeds with token
loginEnv(e, token, orgSlug) ==
    [e EXCEPT !.SOCKET_CLI_API_TOKEN = token,
              !.SOCKET_CLI_ORG_SLUG  = IF orgSlug # <<>> THEN orgSlug ELSE @]

\* lines 565-578: clearSocketConfig (may throw), then socketAuth.login
runLogin ==
    /\ pc = "login"
    /\ \E clearThrows \in BOOLEAN, isInteractive \in BOOLEAN, typed \in TypedTokens :
          IF clearThrows
          THEN pc' = "catch" /\ UNCHANGED << exitCode, isAuthenticated, checks, env >>
          ELSE LET token == tokenToUse(config.socketApiToken, env, isInteractive, typed)
                   socketLoginOk ==
                       login(config.socketApiToken, env, isInteractive, typed)
               IN  /\ checks' = Append(checks, Check("socketLoginOk", socketLoginOk))
                   /\ IF socketLoginOk
                      THEN /\ isAuthenticated' = TRUE
                           /\ env' = loginEnv(env, token, config.socketOrg)
                           /\ pc' = "verifySocket"
                           /\ UNCHANGED exitCode
                      ELSE Exit(1) /\ UNCHANGED << isAuthenticated, env >>
    /\ UNCHANGED << retryVars, args, config, loopVars, pipelineVars, report,
                    ghArchived, calls >>

\* lines 580-588: socketCLI.verifyAuthentication() answers true or false
runVerifySocket ==
    /\ pc = "verifySocket"
    /\ \E socketAuthOk \in BOOLEAN :
          /\ checks' = Append(checks, Check("socketAuthOk", socketAuthOk))
          /\ IF socketAuthOk THEN pc' = "verifyOrg" /\ UNCHANGED exitCode ELSE Exit(1)
    /\ UNCHANGED << retryVars, args, env, config, isAuthenticated, loopVars, pipelineVars,
                    report, ghArchived, calls >>

\* runVerifyOrganization going on after a failed verification
runVerifyOrganization_continue ==
    /\ pc = "verifyOrg"
    /\ \E orgOk \in BOOLEAN :
          /\ checks' = Append(checks, Check("orgOk", orgOk))
          /\ pc' = "prepare" /\ UNCHANGED exitCode
    /\ UNCHANGED << retryVars, args, env, config, isAuthenticated, loopVars, pipelineVars,
                    report, ghArchived, calls >>

\* lines 590-595: gitHub.verifyOrganization() answers true or false
runVerifyOrganization ==
    /\ pc = "verifyOrg"
    /\ \E orgOk \in BOOLEAN :
          /\ checks' = Append(checks, Check("orgOk", orgOk))
          /\ IF orgOk THEN pc' = "prepare" /\ UNCHANGED exitCode ELSE Exit(1)
    /\ UNCHANGED << retryVars, args, env, config, isAuthenticated, loopVars, pipelineVars,
                    report, ghArchived, calls >>

\* calculateBackoffDelay without the cap
calculateBackoffDelay_noCap(attemptNumber) == BACKOFF_BASE_MS * 2 ^ attemptNumber

\* calculateBackoffDelay(attemptNumber) (helpers 59-61)
calculateBackoffDelay(attemptNumber) ==
    LET exponential == BACKOFF_BASE_MS * 2 ^ attemptNumber
    IN  IF exponential < BACKOFF_CAP_MS THEN exponential ELSE BACKOFF_CAP_MS

\* `const delay = calculateBackoffDelay(retries); await sleep(delay)`
Sleep(retries) == [attemptNumber |-> retries, delay |-> calculateBackoffDelay(retries)]

\* lines 597-614: ensure the logs directory, remove and re-create the clone
\* base directory; a failing ensureDirectory throws to the catch of run():
\* the one of the logs directory before the removal is tried, the one of
\* the base directory after it
PrepareOutcomes == {"ok", "logsThrows", "baseThrows"}
runPrepareDirectories ==
    /\ pc = "prepare"
    /\ \E prepared \in PrepareOutcomes :
          /\ pc' = IF prepared = "ok" THEN "discover" ELSE "catch"
          /\ calls' = IF prepared = "logsThrows"
                      THEN calls
                      ELSE calls \o << Call("removeBaseDirectory", 0) >>
    /\ UNCHANGED << retryVars, args, env, config, isAuthenticated, checks, loopVars,
                    pipelineVars, report, exitCode, ghArchived >>

\* the repositories of the organization as the listing returns them
ServerRepos == [n \in RepoIds |-> [name |-> RepoName(n), archived |-> ghArchived[RepoName(n)]]]

\* listArchivedRepositories: the archived repositories, in listing order
listArchivedRepositories(server) ==
    LET RECURSIVE filter(_)
        filter(i) ==
            IF i > Len(server) THEN <<>>
            ELSE (IF server[i].archived = TRUE
                  THEN << Descriptor(server[i].name) >>
                  ELSE <<>>) \o filter(i + 1)
    IN  filter(1)

\* the numbers of consecutive invocations of the listing drawn that meet a
\* rate-limit error: none, one, and enough to use up the retries
ListingFailures == {0, 1, MAX_RETRIES + 1}

\* GitHubClient.listArchivedRepositories(retries) (part_002 23-97) when the
\* next `rateLimits` invocations meet a rate-limit error and the one after
\* them throws another error iff `thenThrows`: whether the call returns,
\* and the backoff sleeps it makes (lines 82-91)
RECURSIVE listArchivedRepositoriesRetried(_, _, _)
listArchivedRepositoriesRetried(rateLimits, thenThrows, retries) ==
    IF rateLimits = 0
    THEN [ok |-> ~thenThrows, sleeps |-> <<>>]
    ELSE IF retries < MAX_RETRIES
         THEN LET r == listArchivedRepositoriesRetried(rateLimits - 1, thenThrows,
                                                       retries + 1)
              IN  [r EXCEPT !.sleeps = << Sleep(retries) >> \o @]
         ELSE [ok |-> FALSE, sleeps |-> <<>>]

\* lines 616-627: discovery; it throws when the listing fails for good, and
\* run() exits 0 when there is no archived repository
runDiscover ==
    /\ pc = "discover"
    /\ \E rateLimits \in ListingFailures, thenThrows \in BOOLEAN :
          LET r == listArchivedRepositoriesRetried(rateLimits, thenThrows, 0)
          IN  /\ sleeps' = sleeps \o r.sleeps
              /\ IF ~r.ok
                 THEN pc' = "catch" /\ UNCHANGED << archivedRepos, exitCode >>
                 ELSE /\ archivedRepos' = listArchivedRepositories(ServerRepos)
                      /\ IF Len(archivedRepos') = 0
                         THEN Exit(0)
                         ELSE pc' = "loop" /\ UNCHANGED exitCode
    /\ UNCHANGED << attempt, previous, logger, args, env, config, isAuthenticated,
                    checks, index, results, pipelineVars, report, ghArchived, calls >>

\* SocketCLIAuth.logout(), called by cleanup(): isAuthenticated after it
logout(auth) == FALSE

\* cli-auth.ts 69-91: process.env after logout(), which clears the two
\* variables only when authenticated, and what logout() returns
logoutEnv(auth, e) ==
    IF ~auth THEN e
    ELSE [e EXCEPT !.SOCKET_CLI_API_TOKEN = <<>>, !.SOCKET_CLI_ORG_SLUG = <<>>]
logoutReturns(auth) == TRUE

\* the catch of run() exiting with status 0
runCatch_exitZero ==
    /\ pc = "catch"
    /\ calls' = Append(calls, Call("loggerError", 0))
    /\ isAuthenticated' = logout(isAuthenticated)
    /\ env' = logoutEnv(isAuthenticated, env)
    /\ Exit(0)
    /\ UNCHANGED << retryVars, args, config, checks, loopVars, pipelineVars, report,
                    ghArchived >>

\* lines 665-670: catch of run(): logger.error("Fatal error in
\* orchestrator", err), cleanup, exit 1
runCatch ==
    /\ pc = "catch"
    /\ calls' = Append(calls, Call("loggerError", 0))
    /\ isAuthenticated' = logout(isAuthenticated)
    /\ env' = logoutEnv(isAuthenticated, env)
    /\ Exit(1)
    /\ UNCHANGED << retryVars, args, config, checks, loopVars, pipelineVars, report,
                    ghArchived >>

----------------------------------------------------------------------------
(* processRepository(repo), lines 684-763, and its step helpers.  `stage`  *)
(* names the step about to run; a step that throws moves to "catch".       *)

runVars == << pc, args, env, config, isAuthenticated, checks, report, exitCode,
             attempt, previous, logger >>

\* the step helper pushes a successful StepResult and returns
StepOk(n, next) ==
    /\ steps' = Append(steps, StepResult(n, TRUE))
    /\ stage' = next
    /\ UNCHANGED error

\* the step helper pushes a failed StepResult and rethrows `err`
StepThrows(n, err) ==
    /\ steps' = Append(steps, StepResult(n, FALSE))
    /\ stage' = "catch"
    /\ error' = err

\* lines 631-636 and 687-698: the loop takes the next repository and
\* processRepository starts with fresh locals
beginRepository ==
    /\ pc = "loop"
    /\ stage = "idle"
    /\ index <= Len(archivedRepos)
    /\ steps' = <<>>
    /\ deletionFailed' = FALSE
    /\ error' = "none"
    /\ ret' = NoResult
    /\ stage' = IF repo.archived THEN "Unarchive" ELSE "Clone"
    /\ UNCHANGED << runVars, sleeps, loopVars, deletionRecords, ghArchived, calls >>

\* executeUnarchiveStep recording the failure and going on to the clone
executeUnarchiveStep_noRethrow ==
    /\ stage = "Unarchive"
    /\ IF config.dryRun
       THEN StepOk("Unarchive", "Clone") /\ UNCHANGED << ghArchived, calls >>
       ELSE \E unarchived \in BOOLEAN :
               /\ calls' = Append(calls, Call("unarchive", repo.name))
               /\ IF unarchived
                  THEN /\ ghArchived' = [ghArchived EXCEPT ![repo.name] = FALSE]
                       /\ StepOk("Unarchive", "Clone")
                  ELSE /\ UNCHANGED << ghArchived, error >>
                       /\ steps' = Append(steps, StepResult("Unarchive", FALSE))
                       /\ stage' = "Clone"
    /\ UNCHANGED << runVars, sleeps, loopVars, deletionFailed, ret, deletionRecords >>

\* lines 765-806
executeUnarchiveStep ==
    /\ stage = "Unarchive"
    /\ IF config.dryRun
       THEN StepOk("Unarchive", "Clone") /\ UNCHANGED << ghArchived, calls >>
       ELSE \E unarchived \in BOOLEAN :
               /\ calls' = Append(calls, Call("unarchive", repo.name))
               /\ IF unarchived
                  THEN /\ ghArchived' = [ghArchived EXCEPT ![repo.name] = FALSE]
                       /\ StepOk("Unarchive", "Clone")
                  ELSE /\ UNCHANGED ghArchived
                       /\ StepThrows("Unarchive", "Failed to unarchive repository")
    /\ UNCHANGED << runVars, sleeps, loopVars, deletionFailed, ret, deletionRecords >>

\* lines 808-845, with GitOperations.clone (operations.ts 395-444): the stale
\* directory is removed first; the git clone subprocess runs only after that
executeCloneStep ==
    /\ stage = "Clone"
    /\ IF config.dryRun
       THEN StepOk("Clone", "Create socket.yml") /\ UNCHANGED calls
       ELSE \E outcome \in {"cloned", "removeFailed", "cloneFailed"} :
               /\ calls' = IF outcome = "removeFailed" THEN calls
                           ELSE Append(calls, Call("clone", repo.name))
               /\ IF outcome = "cloned"
                  THEN StepOk("Clone", "Create socket.yml")
                  ELSE StepThrows("Clone", IF outcome = "removeFailed"
                                           THEN "Cannot proceed with clone"
                                           ELSE "Git clone failed")
    /\ UNCHANGED << runVars, sleeps, loopVars, deletionFailed, ret, deletionRecords,
                    ghArchived >>

\* lines 847-876, with createSocketYml and verifySocketYml
\* (file-operations.ts 8-29, 49-80)
executeFileStep ==
    /\ stage = "Create socket.yml"
    /\ IF config.dryRun
       THEN StepOk("Create socket.yml", "Stage") /\ UNCHANGED calls
       ELSE \E outcome \in {"verified", "writeFailed", "notVerified"} :
               /\ calls' = Append(calls, Call("writeFile", repo.name))
               /\ IF outcome = "verified"
                  THEN StepOk("Create socket.yml", "Stage")
                  ELSE StepThrows("Create socket.yml",
                                  IF outcome = "writeFailed"
                                  THEN "write failed"
                                  ELSE "socket.yml verification failed")
    /\ UNCHANGED << runVars, sleeps, loopVars, deletionFailed, ret, deletionRecords,
                    ghArchived >>

\* executeStageStep recording the failure without rethrowing it
executeStageStep_noRethrow ==
    /\ stage = "Stage"
    /\ IF config.dryRun
       THEN StepOk("Stage", "Commit") /\ UNCHANGED calls
       ELSE \E exitZero \in BOOLEAN :
               /\ calls' = Append(calls, Call("gitAdd", repo.name))
               /\ steps' = Append(steps, StepResult("Stage", exitZero))
               /\ stage' = "Commit"
               /\ UNCHANGED error
    /\ UNCHANGED << runVars, sleeps, loopVars, deletionFailed, ret, deletionRecords,
                    ghArchived >>

\* lines 878-904, with GitOperations.stageFile (operations.ts 449-476)
executeStageStep ==
    /\ stage = "Stage"
    /\ IF config.dryRun
       THEN StepOk("Stage", "Commit") /\ UNCHANGED calls
       ELSE \E exitZero \in BOOLEAN :
               /\ calls' = Append(calls, Call("gitAdd", repo.name))
               /\ IF exitZero
                  THEN StepOk("Stage", "Commit")
                  ELSE StepThrows("Stage", "Git add failed")
    /\ UNCHANGED << runVars, sleeps, loopVars, deletionFailed, ret, deletionRecords,
                    ghArchived >>

\* commitReturns without the tolerance of "nothing to commit"
commitReturns_noTolerance(exitZero, output) == exitZero

\* GitOperations.commit (operations.ts 481-521): does it return normally,
\* given the subprocess's exit status and output
CommitOutputs == {"nothing to commit", "no changes added", "other"}
commitReturns(exitZero, output) ==
    \/ exitZero
    \/ output \in {"nothing to commit", "no changes added"}

\* what git commit prints on one stream: one of CommitOutputs, or nothing
CommitTexts == CommitOutputs \cup {""}

\* operations.ts 499: const output = stderr || stdout
commitOutput(stderr, stdout) == IF stderr # "" THEN stderr ELSE stdout

\* GitOperations.configureUser (operations.ts 313-389): the global identity
\* is read and written to the clone ("configured"); it throws when
\* user.name or user.email is unset globally ("unset"), and when
\* `git config user.name` or `git config user.email` fails in the clone
\* ("setFails")
GitUserOutcomes == {"configured", "unset", "setFails"}

\* the message of the error configureUser throws, without its detail
configureUserError(gitUser) ==
    IF gitUser = "unset" THEN "Git user not configured"
    ELSE "Failed to set local git user"

\* the commit of a pipeline followed on its own: what configureUser finds,
\* and the exit status and the streams of `git commit`
GitCommitCall(gitUser, exitZero, stderr, stdout) ==
    [op |-> "gitCommit", gitUser |-> gitUser, exitZero |-> exitZero,
     stderr |-> stderr, stdout |-> stdout]

\* when the commit is followed on its own, the answers are the followed ones
gitCommitFollowed(gitUser, exitZero, stderr, stdout) ==
    attempt.op = "gitCommit" =>
        attempt = GitCommitCall(gitUser, exitZero, stderr, stdout)

\* what `git commit` can answer in the clone of repository n: when origin
\* already holds the socket.yml commit the rewritten file is unchanged, and
\* git exits non-zero with "nothing to commit"
gitCommitAnswers(n, exitZero, output) ==
    PushedBefore(n) => (~exitZero /\ output = "nothing to commit")

\* lines 906-934, with GitOperations.configureUser (operations.ts 313-389):
\* when configureUser throws, git commit is not run
executeCommitStep ==
    /\ stage = "Commit"
    /\ IF config.dryRun
       THEN StepOk("Commit", "Delete Repository") /\ UNCHANGED calls
       ELSE \E gitUser \in GitUserOutcomes, exitZero \in BOOLEAN,
               stderr \in CommitTexts, stdout \in CommitTexts :
               LET output == commitOutput(stderr, stdout)
               IN  /\ gitCommitAnswers(repo.name, exitZero, output)
                   /\ gitCommitFollowed(gitUser, exitZero, stderr, stdout)
                   /\ IF gitUser # "configured"
                      THEN /\ UNCHANGED calls
                           /\ StepThrows("Commit", configureUserError(gitUser))
                      ELSE /\ calls' = Append(calls, Call("gitCommit", repo.name))
                           /\ IF commitReturns(exitZero, output)
                              THEN StepOk("Commit", "Delete Repository")
                              ELSE StepThrows("Commit", "Git commit failed")
    /\ UNCHANGED << runVars, sleeps, loopVars, deletionFailed, ret, deletionRecords,
                    ghArchived >>

\* the messages of a deletion result, without the repository name and the
\* error detail they embed
MSG_DRY_RUN == "[DRY-RUN] Would delete repository"
MSG_DELETED == "deleted successfully"
MSG_NOT_FOUND == "was not found (already deleted or doesn't exist)"
MSG_FAILED == "Failed to delete repository"
MSG_EXCEPTION == "Exception"

\* what the socket CLI prints (stderr and stdout joined) contains
NotFoundOutputs == {"Repository not found", "404", "Not Found", "Resource not found"}
DeleteOutputs == NotFoundOutputs \cup {"other", ""}

\* Socket.dev no longer holds repository n: an earlier run deleted it or
\* found it missing
DeletedBefore(n) ==
    /\ previous.ran
    /\ \E i \in 1..Len(previous.deletionRecords) :
          /\ previous.deletionRecords[i].repoName = n
          /\ previous.deletionRecords[i].message \in
                 {MSG_DELETED, MSG_NOT_FOUND}

\* what `socket repository del` can answer for repository n: when Socket.dev
\* no longer holds it the CLI exits non-zero with a not-found message
socketDeleteAnswers(n, cliExitCode, output) ==
    DeletedBefore(n) => (cliExitCode # 0 /\ output \in NotFoundOutputs)

DeletionResult(spawned, ok, message) ==
    [spawned |-> spawned, success |-> ok, message |-> message]

\* deleteRepository without the dry-run short cut
deleteRepository_noDryRunGuard(isDryRun, cliExitCode, output) ==
    IF cliExitCode = 0 THEN DeletionResult(TRUE, TRUE, MSG_DELETED)
    ELSE IF output \in NotFoundOutputs THEN DeletionResult(TRUE, TRUE, MSG_NOT_FOUND)
    ELSE DeletionResult(TRUE, FALSE, MSG_FAILED)

\* deleteRepository reporting a not-found answer as a failure
deleteRepository_notFoundFails(isDryRun, cliExitCode, output) ==
    IF isDryRun THEN DeletionResult(FALSE, TRUE, MSG_DRY_RUN)
    ELSE IF cliExitCode = 0 THEN DeletionResult(TRUE, TRUE, MSG_DELETED)
    ELSE DeletionResult(TRUE, FALSE, MSG_FAILED)

\* SocketCLIClient.deleteRepository (cli-client 83-168), given the dry-run
\* flag and the subprocess's exit code and output: whether the socket CLI
\* subprocess is spawned, and the success flag and message of the result
deleteRepository(isDryRun, cliExitCode, output) ==
    IF isDryRun THEN DeletionResult(FALSE, TRUE, MSG_DRY_RUN)
    ELSE IF cliExitCode = 0 THEN DeletionResult(TRUE, TRUE, MSG_DELETED)
    ELSE IF output \in NotFoundOutputs THEN DeletionResult(TRUE, TRUE, MSG_NOT_FOUND)
    ELSE DeletionResult(TRUE, FALSE, MSG_FAILED)

\* executeDeleteRepositoryStep rethrowing a failure like the other steps
executeDeleteRepositoryStep_rethrow ==
    /\ stage = "Delete Repository"
    /\ \E throws \in BOOLEAN, cliExitCode \in {0, 1}, output \in DeleteOutputs :
          LET result  == deleteRepository(config.dryRun, cliExitCode, output)
              success == IF throws THEN FALSE ELSE result.success
              message == IF throws THEN MSG_EXCEPTION ELSE result.message
          IN  /\ ~(throws /\ config.dryRun)
              /\ socketDeleteAnswers(repo.name, cliExitCode, output)
              /\ calls' = IF result.spawned /\ ~throws
                          THEN Append(calls, Call("socketDelete", repo.name))
                          ELSE calls
              /\ steps' = Append(steps, StepResult("Delete Repository", success))
              /\ deletionRecords' =
                     Append(deletionRecords, DeletionRecord(repo.name, success, message))
              /\ deletionFailed' = ~success
              /\ stage' = IF success THEN "Push" ELSE "catch"
              /\ error' = IF success THEN error ELSE "Failed to delete repository"
    /\ UNCHANGED << runVars, sleeps, loopVars, ret, ghArchived >>

\* lines 936-999 and 708-710: never throws; a rejection of the awaited
\* deleteRepository (`throws`, handled at lines 980-998) is recorded like a
\* reported failure, with an "Exception" message
executeDeleteRepositoryStep ==
    /\ stage = "Delete Repository"
    /\ \E throws \in BOOLEAN, cliExitCode \in {0, 1}, output \in DeleteOutputs :
          LET result  == deleteRepository(config.dryRun, cliExitCode, output)
              success == IF throws THEN FALSE ELSE result.success
              message == IF throws THEN MSG_EXCEPTION ELSE result.message
          IN  /\ ~(throws /\ config.dryRun)
              /\ socketDeleteAnswers(repo.name, cliExitCode, output)
              /\ calls' = IF result.spawned /\ ~throws
                          THEN Append(calls, Call("socketDelete", repo.name))
                          ELSE calls
              /\ steps' = Append(steps, StepResult("Delete Repository", success))
              /\ deletionRecords' =
                     Append(deletionRecords, DeletionRecord(repo.name, success, message))
              /\ deletionFailed' = someDeletionFailed(steps')
    /\ stage' = "Push"
    /\ UNCHANGED << runVars, sleeps, loopVars, error, ret, ghArchived >>

\* GitOperations.push retrying while retries <= MAX_RETRIES
RECURSIVE gitPush_oneMoreRetry(_, _)
gitPush_oneMoreRetry(fails, retries) ==
    IF fails = 0
    THEN [ok |-> TRUE, attempts |-> retries + 1, sleeps |-> <<>>]
    ELSE IF retries <= MAX_RETRIES
         THEN LET r == gitPush_oneMoreRetry(fails - 1, retries + 1)
              IN  [r EXCEPT !.sleeps = << Sleep(retries) >> \o @]
         ELSE [ok |-> FALSE, attempts |-> retries + 1, sleeps |-> <<>>]

\* GitOperations.push(branch, retries) (operations.ts 526-569), when the
\* next `fails` runs of the git push subprocess fail: the outcome and the
\* number of subprocess runs
\* number of subprocess runs, and the backoff sleeps made between them
RECURSIVE gitPush(_, _)
gitPush(fails, retries) ==
    IF fails = 0
    THEN [ok |-> TRUE, attempts |-> retries + 1, sleeps |-> <<>>]
    ELSE IF retries < MAX_RETRIES
         THEN LET r == gitPush(fails - 1, retries + 1)
              IN  [r EXCEPT !.sleeps = << Sleep(retries) >> \o @]
         ELSE [ok |-> FALSE, attempts |-> retries + 1, sleeps |-> <<>>]

Repeat(x, n) == [i \in 1..n |-> x]

\* the numbers of consecutive failing runs of the git push subprocess drawn:
\* none, one, and enough to use up the retries
PushFailures == {0, 1, MaxPushFails}

\* returnSuccess with the success flag computed from the recorded steps
returnSuccess_fromSteps ==
    ret' = OperationResult(repo.name, \A k \in 1..Len(steps') : steps'[k].success,
                           steps', "none")

\* lines 720-727: return of the try block
returnSuccess == ret' = OperationResult(repo.name, TRUE, steps', "none")

\* lines 1001-1027 and 715-727
executePushStep ==
    /\ stage = "Push"
    /\ LET next == IF repo.archived THEN "Rearchive" ELSE "finally"
       IN  IF config.dryRun
           THEN StepOk("Push", next) /\ UNCHANGED << calls, sleeps >>
           ELSE \E fails \in PushFailures :
                   LET r == gitPush(fails, 0)
                   IN  /\ calls' = calls \o Repeat(Call("push", repo.name), r.attempts)
                       /\ sleeps' = sleeps \o r.sleeps
                       /\ IF r.ok
                          THEN StepOk("Push", next)
                          ELSE StepThrows("Push", "Git push failed")
    /\ IF stage' = "finally" THEN returnSuccess ELSE UNCHANGED ret
    /\ UNCHANGED << runVars, loopVars, deletionFailed, deletionRecords, ghArchived >>

\* lines 1029-1081: never throws; `rearchived` is the answer of
\* gitHub.rearchiveRepository, or "throws"
RearchiveOutcomes == {"true", "false", "throws"}
executeRearchiveStep(rearchived) ==
    IF config.dryRun
    THEN /\ steps' = Append(steps, StepResult("Rearchive", TRUE))
         /\ UNCHANGED << ghArchived, calls >>
    ELSE /\ calls' = Append(calls, Call("rearchive", repo.name))
         /\ steps' = Append(steps, StepResult("Rearchive", rearchived = "true"))
         /\ ghArchived' = IF rearchived = "true"
                          THEN [ghArchived EXCEPT ![repo.name] = TRUE]
                          ELSE ghArchived

\* lines 715-727: rearchive after the push, then return success
processRepositoryRearchive ==
    /\ stage = "Rearchive"
    /\ \E rearchived \in RearchiveOutcomes : executeRearchiveStep(rearchived)
    /\ returnSuccess
    /\ stage' = "finally"
    /\ UNCHANGED << runVars, sleeps, loopVars, deletionFailed, error, deletionRecords >>

\* no rearchive on the failure path
rearchiveOnFailure_never == FALSE

\* rearchive attempted on the failure path whenever the repository was
\* archived
rearchiveOnFailure_always == repo.archived

\* line 732: is rearchive attempted on the failure path
rearchiveOnFailure == deletionFailed /\ repo.archived

\* processRepositoryCatch rethrowing the error to the catch of run()
processRepositoryCatch_rethrow ==
    /\ stage = "catch"
    /\ pc' = "catch"
    /\ UNCHANGED << retryVars, args, env, config, isAuthenticated, checks, report, exitCode,
                    loopVars, pipelineVars, ghArchived, calls >>

\* lines 728-747: the catch block
processRepositoryCatch ==
    /\ stage = "catch"
    /\ IF rearchiveOnFailure
       THEN \E rearchived \in RearchiveOutcomes : executeRearchiveStep(rearchived)
       ELSE UNCHANGED << steps, ghArchived, calls >>
    /\ ret' = OperationResult(repo.name, FALSE, steps', error)
    /\ stage' = "finally"
    /\ UNCHANGED << runVars, sleeps, loopVars, deletionFailed, error, deletionRecords >>

\* processRepositoryFinally with the result of a failed repository not pushed
processRepositoryFinally_dropFailed ==
    /\ stage = "finally"
    /\ calls' = IF ~config.dryRun
                THEN Append(calls, Call("removeDirectory", repo.name))
                ELSE calls
    /\ results' = IF ret.success THEN Append(results, ret) ELSE results
    /\ index' = index + 1
    /\ stage' = "idle"
    /\ steps' = <<>>
    /\ deletionFailed' = FALSE
    /\ error' = "none"
    /\ ret' = NoResult
    /\ UNCHANGED << runVars, sleeps, archivedRepos, deletionRecords, ghArchived >>

\* processRepositoryFinally removing the clone only after a success
processRepositoryFinally_keepOnFailure ==
    /\ stage = "finally"
    /\ calls' = IF ~config.dryRun /\ ret.success
                THEN Append(calls, Call("removeDirectory", repo.name))
                ELSE calls
    /\ results' = Append(results, ret)
    /\ index' = index + 1
    /\ stage' = "idle"
    /\ steps' = <<>>
    /\ deletionFailed' = FALSE
    /\ error' = "none"
    /\ ret' = NoResult
    /\ UNCHANGED << runVars, sleeps, archivedRepos, deletionRecords, ghArchived >>

\* lines 748-762, then 637-650: the finally block removes the clone directory
\* (not in dry-run; a failing removal is only logged), the pending return
\* completes and run() pushes the result
processRepositoryFinally ==
    /\ stage = "finally"
    /\ calls' = IF ~config.dryRun
                THEN Append(calls, Call("removeDirectory", repo.name))
                ELSE calls
    /\ results' = Append(results, ret)
    /\ index' = index + 1
    /\ stage' = "idle"
    /\ steps' = <<>>
    /\ deletionFailed' = FALSE
    /\ error' = "none"
    /\ ret' = NoResult
    /\ UNCHANGED << runVars, sleeps, archivedRepos, deletionRecords, ghArchived >>

----------------------------------------------------------------------------
(* run(): after the loop, lines 652-664 *)

Count(rs, ok) == Cardinality({i \in 1..Len(rs) : rs[i].success = ok})

\* generateSummaryReport counting as failed the results that carry an error
\* step, whatever their success flag
generateSummaryReport_countFailedSteps(rs) ==
    LET failedOps     == Cardinality({i \in 1..Len(rs) :
                             \E k \in 1..Len(rs[i].steps) : ~rs[i].steps[k].success})
        successfulOps == Len(rs) - failedOps
    IN  [ generated            |-> TRUE,
          totalArchivedRepos   |-> Len(rs),
          processedRepos       |-> Len(rs),
          successfulOperations |-> successfulOps,
          failedOperations     |-> failedOps,
          results              |-> rs,
          dryRun               |-> config.dryRun ]

\* lines 1083-1100
generateSummaryReport(rs) ==
    LET successfulOps == Count(rs, TRUE)
        failedOps     == Len(rs) - successfulOps
    IN  [ generated            |-> TRUE,
          totalArchivedRepos   |-> Len(rs),
          processedRepos       |-> Len(rs),
          successfulOperations |-> successfulOps,
          failedOperations     |-> failedOps,
          results              |-> rs,
          dryRun               |-> config.dryRun ]

\* exitCodeOf with `some` in place of `every`
exitCodeOf_some(rs) == IF \E i \in 1..Len(rs) : rs[i].success THEN 0 ELSE 1

\* lines 661-662
exitCodeOf(rs) == IF \A i \in 1..Len(rs) : rs[i].success THEN 0 ELSE 1

\* lines 652-664: summary report, log file, cleanup, exit
runFinish ==
    /\ pc = "loop"
    /\ stage = "idle"
    /\ index > Len(archivedRepos)
    /\ report' = generateSummaryReport(results)
    /\ calls' = Append(calls, Call("saveToFile", 0))
    /\ isAuthenticated' = logout(isAuthenticated)
    /\ env' = logoutEnv(isAuthenticated, env)
    /\ Exit(exitCodeOf(results))
    /\ UNCHANGED << retryVars, args, config, checks, loopVars, pipelineVars,
                    ghArchived >>

----------------------------------------------------------------------------

Next ==
    \/ runLoadConfig
    \/ runVerifyAuth
    \/ runLogin
    \/ runVerifySocket
    \/ runVerifyOrganization
    \/ runPrepareDirectories
    \/ runDiscover
    \/ runCatch
    \/ beginRepository
    \/ executeUnarchiveStep
    \/ executeCloneStep
    \/ executeFileStep
    \/ executeStageStep
    \/ executeCommitStep
    \/ executeDeleteRepositoryStep
    \/ executePushStep
    \/ processRepositoryRearchive
    \/ processRepositoryCatch
    \/ processRepositoryFinally
    \/ runFinish

Spec == Init /\ [][Next]_vars

\* The run under the scheduling of the runtime: run() awaits one call at a
\* time, and every awaited call settles, so a step that can be taken is
\* eventually taken.
LiveSpec == Spec /\ WF_vars(Next)

----------------------------------------------------------------------------
(* The program run twice against the same organization: a second process  *)
(* starts after the first has ended normally.  GitHub, origin and          *)
(* Socket.dev are as the first run left them, and everything else answers  *)
(* the second run as it answered the first.                                *)

TwiceInit ==
    /\ pc = "start"
    /\ args \in {<<>>, <<DRY_RUN_FLAG>>}
    /\ env = EnvBase
    /\ config = NoConfig
    /\ isAuthenticated = FALSE
    /\ checks = <<>>
    /\ archivedRepos = <<>>
    /\ index = 1
    /\ results = <<>>
    /\ stage = "idle"
    /\ steps = <<>>
    /\ deletionFailed = FALSE
    /\ error = "none"
    /\ ret = NoResult
    /\ deletionRecords = <<>>
    /\ report = NoReport
    /\ exitCode = -1
    /\ ghArchived = [n \in RepoNames |-> n = RepoName(1)]
    /\ calls = <<>>
    /\ sleeps = <<>>
    /\ attempt = NoAttempt
    /\ previous = NoPrevious
    /\ logger = Logger(DEFAULT_LOG_LEVEL)

\* the result of repository n in the earlier run
PreviousResult(n) ==
    previous.results[CHOOSE i \in 1..Len(previous.results) :
                        previous.results[i].repoName = n]

\* the deletion records of repository n in a list of deletion records
RecordsOf(dr, n) == SelectSeq(dr, LAMBDA r : r.repoName = n)

\* step k of the repository in progress got the answer it got in the
\* earlier run, unless the earlier run changed what the step finds (the
\* commit after a push: the git identity is configured as before, the
\* answer of `git commit` is the one of gitCommitAnswers; the deletion:
\* see DeletionReplays); nothing is said of a step the earlier run did not
\* reach
StepReplays(k) ==
    LET p == PreviousResult(repo.name)
    IN  k <= Len(p.steps) =>
           \/ /\ steps[k].name = "Commit"
              /\ PushedBefore(repo.name)
              /\ error \notin {"Git user not configured", "Failed to set local git user"}
           \/ steps[k].name = "Delete Repository"
           \/ /\ steps[k].success = p.steps[k].success
              /\ (k = Len(p.steps) /\ ~p.success /\ stage = "catch")
                     => error = p.error

\* the deletion of the repository in progress got the answer it got in the
\* earlier run, unless the earlier run removed the repository from
\* Socket.dev: then the call is only known not to be rejected
DeletionReplays ==
    LET now    == RecordsOf(deletionRecords, repo.name)
        before == RecordsOf(previous.deletionRecords, repo.name)
    IN  (now # <<>> /\ before # <<>>) =>
           IF DeletedBefore(repo.name)
           THEN now[1].message # MSG_EXCEPTION
           ELSE now[1].message = before[1].message

\* the second run is answered as the first was: the precondition checks
\* pass and nothing throws before the loop (the first run ended normally),
\* and the steps of the repository in progress get the same answers
Replays ==
    previous.ran =>
       /\ pc # "catch"
       /\ \A k \in 1..Len(checks) : checks[k].ok
       /\ steps # <<>> =>
             /\ \A k \in 1..Len(steps) : StepReplays(k)
             /\ DeletionReplays

\* the process has ended normally and the program is started again, with
\* the same command line and environment
runAgain ==
    /\ pc = "exited"
    /\ report.generated
    /\ ~previous.ran
    /\ previous' = Previous(results, deletionRecords, config.dryRun)
    /\ pc' = "start"
    /\ config' = NoConfig
    /\ isAuthenticated' = FALSE
    /\ checks' = <<>>
    /\ archivedRepos' = <<>>
    /\ index' = 1
    /\ results' = <<>>
    /\ deletionRecords' = <<>>
    /\ report' = NoReport
    /\ exitCode' = -1
    /\ calls' = <<>>
    /\ sleeps' = <<>>
    /\ UNCHANGED << args, env, stage, steps, deletionFailed, error, ret, ghArchived,
                    attempt, logger >>

TwiceNext ==
    \/ runLoadConfig /\ Replays'
    \/ runVerifyAuth /\ Replays'
    \/ runLogin /\ Replays'
    \/ runVerifySocket /\ Replays'
    \/ runVerifyOrganization /\ Replays'
    \/ runPrepareDirectories /\ Replays'
    \/ runDiscover /\ Replays'
    \/ runCatch /\ Replays'
    \/ beginRepository /\ Replays'
    \/ executeUnarchiveStep /\ Replays'
    \/ executeCloneStep /\ Replays'
    \/ executeFileStep /\ Replays'
    \/ executeStageStep /\ Replays'
    \/ executeCommitStep /\ Replays'
    \/ executeDeleteRepositoryStep /\ Replays'
    \/ executePushStep /\ Replays'
    \/ processRepositoryRearchive /\ Replays'
    \/ processRepositoryCatch /\ Replays'
    \/ processRepositoryFinally /\ Replays'
    \/ runFinish /\ Replays'
    \/ runAgain

TwiceSpec == TwiceInit /\ [][TwiceNext]_vars

----------------------------------------------------------------------------
(* Configuration loading alone, over organization names of every shape:    *)
(* a name is a first character, a run of one filling character and a last  *)
(* character.                                                               *)

\* the characters drawn: alphanumerics, the hyphen and one other character
EdgeChars == {"a", "0", "-", "_"}
FillChars == {"Z", "-", "_"}

\* the lengths drawn: the shortest names and those around the longest ones
\* the pattern admits
OrgLengths == {0, 1, 2, 3, MaxOrgLen - 2, MaxOrgLen - 1, MaxOrgLen}

OrgName(first, fill, last, n) ==
    IF n = 0 THEN <<>>
    ELSE IF n = 1 THEN << first >>
    ELSE << first >> \o [i \in 1..(n - 2) |-> fill] \o << last >>

OrgNames ==
    { OrgName(first, fill, last, n) :
          first \in EdgeChars, fill \in FillChars, last \in EdgeChars, n \in OrgLengths }

OrgInit ==
    /\ pc = "start"
    /\ args = <<>>
    /\ \E name \in OrgNames :
          \/ env = [EnvBase EXCEPT !.GITHUB_ORG = name]
          \/ env = [EnvBase EXCEPT !.SOCKET_ORG = name]
    /\ config = NoConfig
    /\ isAuthenticated = FALSE
    /\ checks = <<>>
    /\ archivedRepos = <<>>
    /\ index = 1
    /\ results = <<>>
    /\ stage = "idle"
    /\ steps = <<>>
    /\ deletionFailed = FALSE
    /\ error = "none"
    /\ ret = NoResult
    /\ deletionRecords = <<>>
    /\ report = NoReport
    /\ exitCode = -1
    /\ ghArchived = [n \in RepoNames |-> FALSE]
    /\ calls = <<>>
    /\ sleeps = <<>>
    /\ attempt = NoAttempt
    /\ previous = NoPrevious
    /\ logger = Logger(DEFAULT_LOG_LEVEL)

OrgNext == runLoadConfig

OrgSpec == OrgInit /\ [][OrgNext]_vars

----------------------------------------------------------------------------
(* calculateBackoffDelay alone: the function is exported and takes any      *)
(* attempt number, so it is applied beyond the attempts 0..2 that the       *)
(* retry handlers pass to it.  `sleeps` holds the attempt numbers it was    *)
(* applied to, each with the delay computed.                                *)

BackoffInit ==
    /\ pc = "backoff"
    /\ args = <<>>
    /\ env = EnvBase
    /\ config = NoConfig
    /\ isAuthenticated = FALSE
    /\ checks = <<>>
    /\ archivedRepos = <<>>
    /\ index = 1
    /\ results = <<>>
    /\ stage = "idle"
    /\ steps = <<>>
    /\ deletionFailed = FALSE
    /\ error = "none"
    /\ ret = NoResult
    /\ deletionRecords = <<>>
    /\ report = NoReport
    /\ exitCode = -1
    /\ ghArchived = [n \in RepoNames |-> FALSE]
    /\ calls = <<>>
    /\ sleeps = <<>>
    /\ attempt = NoAttempt
    /\ previous = NoPrevious
    /\ logger = Logger(DEFAULT_LOG_LEVEL)

\* constants.ts 59-61: calculateBackoffDelay is applied to an attempt number
backoffDelayComputed ==
    /\ pc = "backoff"
    /\ Len(sleeps) < MaxSleeps
    /\ \E attemptNumber \in 0..MaxAttempt :
          sleeps' = Append(sleeps, [attemptNumber |-> attemptNumber,
                                    delay |-> calculateBackoffDelay(attemptNumber)])
    /\ UNCHANGED << runVars, loopVars, pipelineVars, ghArchived, calls >>

BackoffNext == backoffDelayComputed

BackoffSpec == BackoffInit /\ [][BackoffNext]_vars

----------------------------------------------------------------------------
(* The retrying network calls, attempt by attempt: GitOperations.push,     *)
(* GitHubClient.listArchivedRepositories and SocketClient.listScans.  Each *)
(* attempt either succeeds or fails with an error; the catch handler of    *)
(* the call decides from the error and `retries` whether to sleep and call *)
(* itself again or to throw.                                               *)

RATE_LIMITED == 429
FORBIDDEN == 403

\* an error as the handlers inspect it: whether axios.isAxiosError holds of
\* it, the HTTP status of its response (0 if there is none), its error code
\* ("" if none) and what its message contains
Error(isAxiosError, status, code, message) ==
    [isAxiosError |-> isAxiosError, status |-> status, code |-> code,
     message |-> message]

Errors ==
    { Error(TRUE, RATE_LIMITED, "", "rate limit"),
      Error(TRUE, 0, "ECONNREFUSED", "connect ECONNREFUSED"),
      Error(TRUE, 0, "ETIMEDOUT", "timeout"),
      Error(TRUE, 0, "ENOTFOUND", "getaddrinfo ENOTFOUND"),
      Error(TRUE, FORBIDDEN, "", "403"),
      Error(TRUE, 0, "", "rejected"),
      Error(FALSE, RATE_LIMITED, "", "rate limit"),
      Error(FALSE, 0, "ECONNREFUSED", "connect ECONNREFUSED") }

\* operations.ts 557: push retries after any error
pushShouldRetry(err, retries) == retries < MAX_RETRIES

\* part_002 82-85: err.message.includes("403") || includes("rate limit")
listingShouldRetry(err, retries) ==
    /\ err.message \in {"403", "rate limit"}
    /\ retries < MAX_RETRIES

\* client.ts 154-160
handleErrorShouldRetry(err, retries) ==
    /\ err.isAxiosError
    /\ \/ err.status = RATE_LIMITED
       \/ err.code = "ECONNREFUSED"
       \/ err.code = "ETIMEDOUT"
       \/ err.code = "ENOTFOUND"
    /\ retries < MAX_RETRIES

Attempt(op, retries, errors, status) ==
    [op |-> op, retries |-> retries, errors |-> errors, status |-> status]

RetryOps == {"push", "listArchivedRepositories", "listScans"}

RetryInit ==
    /\ pc = "retry"
    /\ args = <<>>
    /\ env = EnvBase
    /\ config = NoConfig
    /\ isAuthenticated = FALSE
    /\ checks = <<>>
    /\ archivedRepos = <<>>
    /\ index = 1
    /\ results = <<>>
    /\ stage = "idle"
    /\ steps = <<>>
    /\ deletionFailed = FALSE
    /\ error = "none"
    /\ ret = NoResult
    /\ deletionRecords = <<>>
    /\ report = NoReport
    /\ exitCode = -1
    /\ ghArchived = [n \in RepoNames |-> FALSE]
    /\ calls = <<>>
    /\ sleeps = <<>>
    /\ \E op \in RetryOps : attempt = Attempt(op, 0, <<>>, "running")
    /\ previous = NoPrevious
    /\ logger = Logger(DEFAULT_LOG_LEVEL)

\* one invocation of the retrying call attempt.op: the network call is
\* issued; if it fails with `err`, the catch handler either sleeps and
\* re-invokes the call with retries + 1 (`retry`), or throws
invoke(failed, err, retry) ==
    /\ calls' = Append(calls, Call(attempt.op, 0))
    /\ IF ~failed
       THEN /\ attempt' = [attempt EXCEPT !.status = "returned"]
            /\ UNCHANGED sleeps
       ELSE IF retry
            THEN /\ sleeps' = Append(sleeps, Sleep(attempt.retries))
                 /\ attempt' = Attempt(attempt.op, attempt.retries + 1,
                                       Append(attempt.errors, err), "running")
            ELSE /\ attempt' = Attempt(attempt.op, attempt.retries,
                                       Append(attempt.errors, err), "thrown")
                 /\ UNCHANGED sleeps
    /\ UNCHANGED << pc, args, env, config, isAuthenticated, checks, report,
                    exitCode, loopVars, pipelineVars, ghArchived, previous, logger >>

\* operations.ts 526-569
pushAttempt ==
    /\ pc = "retry"
    /\ attempt = Attempt("push", attempt.retries, attempt.errors, "running")
    /\ \E failed \in BOOLEAN, err \in Errors :
          invoke(failed, err, pushShouldRetry(err, attempt.retries))

\* part_002 24-97
listArchivedRepositoriesAttempt ==
    /\ pc = "retry"
    /\ attempt = Attempt("listArchivedRepositories", attempt.retries,
                         attempt.errors, "running")
    /\ \E failed \in BOOLEAN, err \in Errors :
          invoke(failed, err, listingShouldRetry(err, attempt.retries))

\* client.ts 38-59 and 143-183
listScansAttempt ==
    /\ pc = "retry"
    /\ attempt = Attempt("listScans", attempt.retries, attempt.errors, "running")
    /\ \E failed \in BOOLEAN, err \in Errors :
          invoke(failed, err, handleErrorShouldRetry(err, attempt.retries))

RetryNext ==
    \/ pushAttempt
    \/ listArchivedRepositoriesAttempt
    \/ listScansAttempt

RetrySpec == RetryInit /\ [][RetryNext]_vars

----------------------------------------------------------------------------
(* SocketCLIClient.deleteRepository alone, with the subprocess that         *)
(* executeSocketCommand spawns: the `socket repository del` process exits  *)
(* with a code, is killed by the signal of its timeout, or cannot be       *)
(* spawned or awaited.                                                      *)

\* the signal Bun.spawn sends when `timeout` expires (killSignal default),
\* and what `proc.exited` resolves with for a process killed by signal s:
\* SIGNAL_EXIT_BASE + s
SIGTERM == 15
SIGNAL_EXIT_BASE == 128

Exited(code) == [kind |-> "exited", code |-> code]
Signaled(signal) == [kind |-> "signaled", signal |-> signal]
ProcessEnds ==
    { Exited(0), Exited(1), Exited(2), Signaled(SIGTERM),
      [kind |-> "rejected"], [kind |-> "spawnThrows"] }

\* `exitCode || 0`
OrZero(code) == IF code = 0 THEN 0 ELSE code

\* executeSocketCommand reporting a process killed by a signal as exit code 0
executeSocketCommand_signalIsZero(end, stdout, stderr) ==
    CASE end.kind = "exited" ->
             [exitCode |-> OrZero(end.code), stdout |-> stdout, stderr |-> stderr]
      [] end.kind = "signaled" ->
             [exitCode |-> 0, stdout |-> stdout, stderr |-> stderr]
      [] OTHER -> [exitCode |-> 1, stdout |-> "", stderr |-> "other"]

\* executeSocketCommand (cli-client 174-226): the {exitCode, stdout, stderr}
\* it resolves with, given how the process ended and what it printed; when
\* the process cannot be spawned or awaited the exit code is 1 and stderr is
\* the error's message
executeSocketCommand(end, stdout, stderr) ==
    CASE end.kind = "exited" ->
             [exitCode |-> OrZero(end.code), stdout |-> stdout, stderr |-> stderr]
      [] end.kind = "signaled" ->
             [exitCode |-> OrZero(SIGNAL_EXIT_BASE + end.signal),
              stdout |-> stdout, stderr |-> stderr]
      [] OTHER -> [exitCode |-> 1, stdout |-> "", stderr |-> "other"]

\* cli-client 120-124: [stderr, stdout] without the empty ones, joined; as
\* for DeleteOutputs, a text is the not-found pattern it contains, "other"
\* or empty
fullErrorOutput(stderr, stdout) ==
    IF stderr \in NotFoundOutputs THEN stderr
    ELSE IF stdout \in NotFoundOutputs THEN stdout
    ELSE IF stderr # "" THEN stderr
    ELSE stdout

SocketCall(end, stdout, stderr, status) ==
    [op |-> "socketDelete", end |-> end, stdout |-> stdout, stderr |-> stderr,
     status |-> status]

DeleteInit ==
    /\ pc = "delete"
    /\ args = <<>>
    /\ env = EnvBase
    /\ \E isDryRun \in BOOLEAN : config = loadConfig(env, isDryRun)
    /\ isAuthenticated = TRUE
    /\ checks = <<>>
    /\ archivedRepos = <<>>
    /\ index = 1
    /\ results = <<>>
    /\ stage = "idle"
    /\ steps = <<>>
    /\ deletionFailed = FALSE
    /\ error = "none"
    /\ ret = NoResult
    /\ deletionRecords = <<>>
    /\ report = NoReport
    /\ exitCode = -1
    /\ ghArchived = [n \in RepoNames |-> FALSE]
    /\ calls = <<>>
    /\ sleeps = <<>>
    /\ \E end \in ProcessEnds, stdout \in DeleteOutputs, stderr \in DeleteOutputs :
          attempt = SocketCall(end, stdout, stderr, "running")
    /\ previous = NoPrevious
    /\ logger = Logger(DEFAULT_LOG_LEVEL)

\* one call of deleteRepository(orgSlug, repoName, isDryRun) for repository
\* 1 (cli-client 83-168); its result is kept as a deletion record
socketDeleteCall ==
    /\ pc = "delete"
    /\ attempt.status = "running"
    /\ LET r      == executeSocketCommand(attempt.end, attempt.stdout, attempt.stderr)
           result == deleteRepository(config.dryRun, r.exitCode,
                                      fullErrorOutput(r.stderr, r.stdout))
       IN  /\ calls' = IF result.spawned
                       THEN Append(calls, Call("socketDelete", RepoName(1)))
                       ELSE calls
           /\ deletionRecords' =
                  Append(deletionRecords,
                         DeletionRecord(RepoName(1), result.success, result.message))
    /\ attempt' = [attempt EXCEPT !.status = "returned"]
    /\ UNCHANGED << pc, args, env, config, isAuthenticated, checks, report, exitCode,
                    loopVars, localVars, ghArchived, sleeps, previous, logger >>

DeleteNext == socketDeleteCall

DeleteSpec == DeleteInit /\ [][DeleteNext]_vars

----------------------------------------------------------------------------
(* GitHubClient.listArchivedRepositories alone, page by page.  The          *)
(* organization's listing is a sequence of pages that does not change       *)
(* during the call; every page after the last one is empty.  Each request   *)
(* of a page either answers or fails with an error.                         *)

\* the lengths of the pages the server answers with
PageLengths == {0, 1, 2}

\* a repository as repos.listForOrg returns it
ListedRepo(n, archived) == [name |-> n, archived |-> archived]

\* the listings: up to MaxPages pages; the repositories are named by their
\* position in the listing, and any of them may be archived
RECURSIVE NumberedFrom(_, _, _)
NumberedFrom(lengths, flags, first) ==
    IF lengths = <<>> THEN <<>>
    ELSE << [i \in 1..Head(lengths) |->
                ListedRepo(first + i - 1, (first + i - 1) \in flags)] >>
         \o NumberedFrom(Tail(lengths), flags, first + Head(lengths))

RECURSIVE Sum(_)
Sum(lengths) == IF lengths = <<>> THEN 0 ELSE Head(lengths) + Sum(Tail(lengths))

Listings ==
    UNION { { NumberedFrom(lengths, flags, 1) : flags \in SUBSET (1..Sum(lengths)) }
            : lengths \in UNION { [1..n -> PageLengths] : n \in 0..MaxPages } }

\* response.data of page `page`
PageOf(pages, page) == IF page \in 1..Len(pages) THEN pages[page] ELSE <<>>

NoError == [none |-> TRUE]

\* one invocation of listArchivedRepositories(retries) at its start
\* (lines 30-32): `repos = []`, `page = 1`
Listing(pages, retries) ==
    [op |-> "listArchivedRepositories", pages |-> pages, page |-> 1,
     repos |-> <<>>, retries |-> retries, status |-> "running", error |-> NoError]

\* the retry keeps the repositories collected before the error
listingRetry_keepRepos(pages, retries) ==
    [Listing(pages, retries) EXCEPT !.repos = attempt.repos]

\* line 91: `return this.listArchivedRepositories(retries + 1)`
listingRetry(pages, retries) == Listing(pages, retries)

ListInit ==
    /\ pc = "list"
    /\ args = <<>>
    /\ env = EnvBase
    /\ config = NoConfig
    /\ isAuthenticated = FALSE
    /\ checks = <<>>
    /\ archivedRepos = <<>>
    /\ index = 1
    /\ results = <<>>
    /\ stage = "idle"
    /\ steps = <<>>
    /\ deletionFailed = FALSE
    /\ error = "none"
    /\ ret = NoResult
    /\ deletionRecords = <<>>
    /\ report = NoReport
    /\ exitCode = -1
    /\ ghArchived = [n \in RepoNames |-> FALSE]
    /\ calls = <<>>
    /\ sleeps = <<>>
    /\ \E pages \in Listings : attempt = Listing(pages, 0)
    /\ previous = NoPrevious
    /\ logger = Logger(DEFAULT_LOG_LEVEL)

\* lines 34-68: the request of page `page` answers; an empty page ends the
\* loop and the call returns `repos` (line 78), any other page adds its
\* archived repositories to `repos`
listPageAnswered ==
    /\ pc = "list"
    /\ attempt.status = "running"
    /\ calls' = Append(calls, Call("listForOrg", attempt.page))
    /\ LET data == PageOf(attempt.pages, attempt.page)
       IN  IF Len(data) = 0
           THEN /\ attempt' = [attempt EXCEPT !.status = "returned"]
                /\ archivedRepos' = attempt.repos
           ELSE /\ attempt' = [attempt EXCEPT
                                  !.repos = @ \o listArchivedRepositories(data),
                                  !.page = @ + 1]
                /\ UNCHANGED archivedRepos
    /\ UNCHANGED << pc, args, env, config, isAuthenticated, checks, report, exitCode,
                    index, results, pipelineVars, ghArchived, sleeps, previous, logger >>

\* lines 79-96: the request of page `page` fails with `err`; a rate-limit
\* error is retried after a sleep while retries < MAX_RETRIES, any other
\* error is thrown
listPageFailed ==
    /\ pc = "list"
    /\ attempt.status = "running"
    /\ calls' = Append(calls, Call("listForOrg", attempt.page))
    /\ \E err \in Errors :
          IF listingShouldRetry(err, attempt.retries)
          THEN /\ sleeps' = Append(sleeps, Sleep(attempt.retries))
               /\ attempt' = listingRetry(attempt.pages, attempt.retries + 1)
          ELSE /\ attempt' = [attempt EXCEPT !.status = "thrown", !.error = err]
               /\ UNCHANGED sleeps
    /\ UNCHANGED << pc, args, env, config, isAuthenticated, checks, report, exitCode,
                    loopVars, pipelineVars, ghArchived, previous, logger >>

ListNext ==
    \/ listPageAnswered
    \/ listPageFailed

ListSpec == ListInit /\ [][ListNext]_vars

\* the listing when every request of a page settles
ListLiveSpec == ListSpec /\ WF_vars(ListNext)

----------------------------------------------------------------------------
(* The Logger alone: a logger created at some level receives calls of its  *)
(* methods.  LOG_LEVEL is read from the environment without validation, so *)
(* the level may be a string that is none of the four levels.              *)

LogLevels == {"debug", "info", "warn", "error", "verbose"}
Messages == {"Found 2 archived repositories", "Processing repository"}
StepNames == {"Clone repository"}
EndStepMessages == {"", "Repository cloned"}

LoggerInit ==
    /\ pc = "log"
    /\ args = <<>>
    /\ env = EnvBase
    /\ config = NoConfig
    /\ isAuthenticated = FALSE
    /\ checks = <<>>
    /\ archivedRepos = <<>>
    /\ index = 1
    /\ results = <<>>
    /\ stage = "idle"
    /\ steps = <<>>
    /\ deletionFailed = FALSE
    /\ error = "none"
    /\ ret = NoResult
    /\ deletionRecords = <<>>
    /\ report = NoReport
    /\ exitCode = -1
    /\ ghArchived = [n \in RepoNames |-> FALSE]
    /\ calls = <<>>
    /\ sleeps = <<>>
    /\ attempt = NoAttempt
    /\ previous = NoPrevious
    /\ \E logLevel \in LogLevels : logger = Logger(logLevel)

\* the rest of the program does not move while the logger is called
loggerFrame ==
    UNCHANGED << pc, args, env, config, isAuthenticated, checks, report, exitCode,
                 loopVars, pipelineVars, ghArchived, sleeps, attempt, previous >>

\* logger.info(message)
infoCalled ==
    /\ pc = "log"
    /\ Len(calls) < MaxLogCalls
    /\ \E message \in Messages :
          /\ calls' = Append(calls, Call("info", message))
          /\ logger' = loggerWrite(logger, "info", message)
    /\ loggerFrame

\* logger.warn(message)
warnCalled ==
    /\ pc = "log"
    /\ Len(calls) < MaxLogCalls
    /\ \E message \in Messages :
          /\ calls' = Append(calls, Call("warn", message))
          /\ logger' = loggerWrite(logger, "warn", message)
    /\ loggerFrame

\* logger.error(message)
errorCalled ==
    /\ pc = "log"
    /\ Len(calls) < MaxLogCalls
    /\ \E message \in Messages :
          /\ calls' = Append(calls, Call("error", message))
          /\ logger' = loggerWrite(logger, "error", message)
    /\ loggerFrame

\* logger.debug(message)
debugCalled ==
    /\ pc = "log"
    /\ Len(calls) < MaxLogCalls
    /\ \E message \in Messages :
          /\ calls' = Append(calls, Call("debug", message))
          /\ logger' = loggerWrite(logger, "debug", message)
    /\ loggerFrame

\* logger.success(message)
successCalled ==
    /\ pc = "log"
    /\ Len(calls) < MaxLogCalls
    /\ \E message \in Messages :
          /\ calls' = Append(calls, Call("success", message))
          /\ logger' = loggerSuccess(logger, message)
    /\ loggerFrame

\* logger.startStep(stepName), which calls this.debug
startStepCalled ==
    /\ pc = "log"
    /\ Len(calls) < MaxLogCalls
    /\ \E stepName \in StepNames :
          /\ calls' = Append(calls, Call("debug", "Starting step: " \o stepName))
          /\ logger' = startStep(logger, stepName)
    /\ loggerFrame

\* logger.endStep(success, message), which calls this.success, this.error
\* or, without a current step, this.warn
endStepCalled ==
    /\ pc = "log"
    /\ Len(calls) < MaxLogCalls
    /\ \E ok \in BOOLEAN, message \in EndStepMessages :
          /\ calls' = Append(calls,
                 IF logger.currentStep = NoStep
                 THEN Call("warn", "endStep called without startStep")
                 ELSE Call(IF ok THEN "success" ELSE "error",
                           endStepMessage(logger, ok, message)))
          /\ logger' = endStep(logger, ok, message)
    /\ loggerFrame

LoggerNext ==
    \/ infoCalled
    \/ warnCalled
    \/ errorCalled
    \/ debugCalled
    \/ successCalled
    \/ startStepCalled
    \/ endStepCalled

LoggerSpec == LoggerInit /\ [][LoggerNext]_vars

----------------------------------------------------------------------------
(* The pipeline of one repository from its Commit step on, in a run that   *)
(* is not a dry run, with the answers of the commit followed: whether the  *)
(* global git identity is set, and the exit status and the two streams of  *)
(* `git commit`.                                                            *)

\* the run has unarchived, cloned, written and staged repository 1 and is
\* about to commit
AtCommit ==
    /\ pc = "loop"
    /\ args = <<>>
    /\ env = loginEnv(EnvBase, Trim(EnvBase.SOCKET_API_TOKEN), Trim(EnvBase.SOCKET_ORG))
    /\ config = loadConfig(env, FALSE)
    /\ isAuthenticated = TRUE
    /\ checks = << Check("githubAuthOk", TRUE), Check("socketLoginOk", TRUE),
                   Check("socketAuthOk", TRUE), Check("orgOk", TRUE) >>
    /\ archivedRepos = << Descriptor(RepoName(1)) >>
    /\ index = 1
    /\ results = <<>>
    /\ stage = "Commit"
    /\ steps = << StepResult("Unarchive", TRUE), StepResult("Clone", TRUE),
                  StepResult("Create socket.yml", TRUE), StepResult("Stage", TRUE) >>
    /\ deletionFailed = FALSE
    /\ error = "none"
    /\ ret = NoResult
    /\ deletionRecords = <<>>
    /\ report = NoReport
    /\ exitCode = -1
    /\ ghArchived = [n \in RepoNames |-> FALSE]
    /\ calls = << Call("removeBaseDirectory", 0), Call("unarchive", RepoName(1)),
                  Call("clone", RepoName(1)), Call("writeFile", RepoName(1)),
                  Call("gitAdd", RepoName(1)) >>
    /\ sleeps = <<>>
    /\ previous = NoPrevious
    /\ logger = Logger(DEFAULT_LOG_LEVEL)

CommitInit ==
    /\ AtCommit
    /\ \E gitUser \in GitUserOutcomes, exitZero \in BOOLEAN,
          stderr \in CommitTexts, stdout \in CommitTexts :
          attempt = GitCommitCall(gitUser, exitZero, stderr, stdout)

CommitNext ==
    \/ executeCommitStep
    \/ executeDeleteRepositoryStep
    \/ executePushStep
    \/ processRepositoryRearchive
    \/ processRepositoryCatch
    \/ processRepositoryFinally
    \/ runFinish

CommitSpec == CommitInit /\ [][CommitNext]_vars

----------------------------------------------------------------------------
(* Properties *)

\* the run went through the loop to its normal end
Finished == pc = "exited" /\ report.generated

\* every step list of the run: those of the results and the one in progress
StepLists == {results[i].steps : i \in 1..Len(results)} \cup {steps}

\* C1: the run produces exactly one OperationResult per discovered
\* repository, in discovery order, and the i-th result carries the name of
\* the i-th descriptor, whatever the outcome of the repository's steps: the
\* results are always a name-wise prefix of the discovered list, one result
\* per finished loop iteration, and the run that got past discovery with a
\* non-empty list ends only with the complete list of results.
C1_OneResultPerRepository ==
    /\ Len(results) <= Len(archivedRepos)
    /\ \A i \in 1..Len(results) : results[i].repoName = archivedRepos[i].name
    /\ pc = "loop" => Len(results) = index - 1
    /\ (pc = "exited" /\ Len(archivedRepos) > 0) =>
           /\ report.generated
           /\ Len(results) = Len(archivedRepos)
           /\ Len(report.results) = Len(archivedRepos)

C1_Witness ==
    /\ Finished
    /\ Len(results) = 2
    /\ ~results[1].success
    /\ results[2].success
    /\ results[1].repoName # results[2].repoName

Last(st) == st[Len(st)]

CloneErrors == {"Cannot proceed with clone", "Git clone failed"}

\* C2: failure isolation.  A step of repository R that fails fatally (or
\* throws) is converted into a failed OperationResult for R that carries the
\* error, the run never leaves the loop for the catch of run(), it always has
\* a next step while in the loop, and it ends only when every repository
\* after R has its result too; after a clone failure R's step list ends at
\* the failed "Clone" step.
C2_FailureIsolation ==
    /\ stage = "finally" /\ error # "none" =>
           ret = OperationResult(repo.name, FALSE, steps, error)
    /\ Len(results) > 0 => pc \in {"loop", "exited"}
    /\ pc = "loop" => ENABLED Next
    /\ \A i \in 1..Len(results) :
          ~results[i].success =>
              /\ results[i].error # "none"
              /\ pc = "exited" =>
                     \A j \in (i + 1)..Len(archivedRepos) :
                        /\ j <= Len(results)
                        /\ results[j].repoName = archivedRepos[j].name
                        /\ results[j].steps # <<>>
              /\ results[i].error \in CloneErrors =>
                     /\ Last(results[i].steps).name = "Clone"
                     /\ ~Last(results[i].steps).success

C2_Witness ==
    /\ Finished
    /\ Len(results) = 2
    /\ results[1].error = "Git clone failed"
    /\ results[1].steps = << StepResult("Unarchive", TRUE), StepResult("Clone", FALSE) >>
    /\ results[2].success
    /\ HasStep(results[2].steps, "Push")

\* the steps whose failure is fatal for the repository
FatalSteps == {"Unarchive", "Clone", "Create socket.yml", "Stage", "Commit", "Push"}

\* the step that throws each error
StepOfError(err) ==
    CASE err = "Failed to unarchive repository" -> "Unarchive"
      [] err \in CloneErrors -> "Clone"
      [] err \in {"write failed", "socket.yml verification failed"} -> "Create socket.yml"
      [] err = "Git add failed" -> "Stage"
      [] err \in {"Git user not configured", "Failed to set local git user",
                  "Git commit failed"} -> "Commit"
      [] err = "Git push failed" -> "Push"

\* in the step list st, step k failed and only Rearchive steps follow it
FailedAt(st, k, n) ==
    /\ st[k] = StepResult(n, FALSE)
    /\ \A j \in (k + 1)..Len(st) : st[j].name = "Rearchive"

\* C3: if the unarchive, clone, create-config-file, stage, commit or push
\* step fails for repository R, that step is recorded with success = false,
\* R's OperationResult.success is false and carries the error, and no step
\* other than Rearchive appears after the failing step in R's step list.
C3_FatalStepTruncates ==
    /\ error # "none" =>
           \E k \in 1..Len(steps) : FailedAt(steps, k, StepOfError(error))
    /\ \A st \in StepLists : \A k \in 1..Len(st) :
          (st[k].name \in FatalSteps /\ ~st[k].success) => FailedAt(st, k, st[k].name)
    /\ \A i \in 1..Len(results) :
          LET r == results[i]
          IN  /\ r.error # "none" =>
                     \E k \in 1..Len(r.steps) : FailedAt(r.steps, k, StepOfError(r.error))
              /\ (\E k \in 1..Len(r.steps) :
                     r.steps[k].name \in FatalSteps /\ ~r.steps[k].success)
                   => (~r.success /\ r.error # "none")

C3_Witness ==
    \E i \in 1..Len(results) :
       /\ results[i].error = "Git push failed"
       /\ ~results[i].success
       /\ Len(results[i].steps) = 8
       /\ results[i].steps[7] = StepResult("Push", FALSE)
       /\ results[i].steps[8].name = "Rearchive"

\* was the repository named n archived at discovery
ArchivedAtDiscovery(n) ==
    \E i \in 1..Len(archivedRepos) :
       archivedRepos[i].name = n /\ archivedRepos[i].archived

\* C4: for every repository whose archived flag was true at discovery, when
\* its pipeline finishes the step list contains a Rearchive entry
\* (successful, or an explicitly recorded failure), also after a fatal
\* failure of an earlier step, so that the repository is never left
\* unarchived on GitHub with no record of a rearchive attempt.
C4_RearchiveAlwaysRecorded ==
    \A i \in 1..Len(results) :
       ArchivedAtDiscovery(results[i].repoName) =>
           HasStep(results[i].steps, "Rearchive")

\* in the step list st, everything but the scan deletion succeeded
OthersSucceeded(st) ==
    \A k \in 1..Len(st) : st[k].name # "Delete Repository" => st[k].success

\* C5: the scan-deletion step never truncates the pipeline.  Whether
\* deleteRepository reports failure or throws, a "Delete Repository" step is
\* recorded (failed), the step never throws into the catch block, and Push
\* is the step attempted next; in a result the deletion step is directly
\* followed by the Push step, and a result all of whose other steps
\* succeeded has success = true.
C5_DeletionNeverTruncates ==
    /\ stage = "Push" => Last(steps).name = "Delete Repository"
    /\ stage = "catch" => Last(steps).name # "Delete Repository"
    /\ \A st \in StepLists : \A k \in 1..Len(st) :
          (st[k].name = "Delete Repository" /\ k < Len(st)) => st[k + 1].name = "Push"
    /\ \A i \in 1..Len(results) :
          LET r == results[i]
          IN  /\ HasStep(r.steps, "Delete Repository") => HasStep(r.steps, "Push")
              /\ (HasStep(r.steps, "Delete Repository") /\ OthersSucceeded(r.steps))
                    => r.success

C5_Witness ==
    \E i \in 1..Len(results) :
       /\ results[i].success
       /\ results[i].steps[6] = StepResult("Delete Repository", FALSE)
       /\ results[i].steps[7] = StepResult("Push", TRUE)
       /\ deletionRecords[1].success = FALSE

\* the calls that change a repository, its clone or its scan record
MutatingOps ==
    {"unarchive", "rearchive", "clone", "writeFile", "gitAdd", "gitCommit",
     "push", "socketDelete"}

NoMutatingCall == \A k \in 1..Len(calls) : calls[k].op \notin MutatingOps

\* C6: in dry-run mode, processing any repository issues no GitHub
\* unarchive/rearchive call, no git clone/add/commit/push subprocess, no
\* configuration-file write and no scan-deletion command, every step
\* recorded in a step list has success = true, and every OperationResult is
\* successful.
C6_DryRunChangesNothing ==
    (config.loaded /\ config.dryRun) =>
        /\ NoMutatingCall
        /\ \A st \in StepLists : \A k \in 1..Len(st) : st[k].success
        /\ \A i \in 1..Len(results) : results[i].success
        /\ \A k \in 1..Len(deletionRecords) : deletionRecords[k].success
        /\ stage # "catch"

C6_Witness ==
    /\ config.loaded /\ config.dryRun
    /\ Finished
    /\ Len(results) = 2
    /\ Len(results[1].steps) = 8
    /\ Len(deletionRecords) = 2

HasDryRunFlag(as) == \E i \in 1..Len(as) : as[i] = DRY_RUN_FLAG

\* C7: the --dry-run command-line flag forces dry-run: for every argument
\* list that contains --dry-run, the loaded configuration has dryRun = true
\* and the run makes no changes.
C7_DryRunFlagForcesDryRun ==
    (config.loaded /\ HasDryRunFlag(args)) => (config.dryRun /\ NoMutatingCall)

EnvTrue == <<"t", "r", "u", "e">>

\* C8: dry-run is also an environment-driven option: with DRY_RUN=true in
\* the environment (and no CLI flag) the loaded configuration has
\* dryRun = true; with neither the variable nor the flag it is false.
C8_DryRunFromEnvironment ==
    (config.loaded /\ ~HasDryRunFlag(args)) =>
        (config.dryRun <=> Trim(env.DRY_RUN) = EnvTrue)

AllSucceeded(rs) == \A i \in 1..Len(rs) : rs[i].success

\* C9: after all repositories are processed the process exits with status 0
\* if and only if every repository's OperationResult.success is true; if at
\* least one is false it exits with status 1.
C9_ExitCodeReflectsResults ==
    /\ report.generated => pc = "exited"
    /\ Finished =>
           /\ Len(results) = Len(archivedRepos)
           /\ exitCode \in {0, 1}
           /\ exitCode = 0 <=> AllSucceeded(results)
           /\ exitCode = 1 <=> (\E i \in 1..Len(results) : ~results[i].success)

C9_Witness ==
    /\ Finished
    /\ exitCode = 1
    /\ Len(results) = 2
    /\ results[1].success
    /\ ~results[2].success

\* C10: in the summary report, successfulOperations is the number of
\* results with success = true, failedOperations the number with
\* success = false, and successfulOperations + failedOperations =
\* processedRepos = totalArchivedRepos = the number of repositories returned
\* by discovery.
C10_SummaryCounts ==
    report.generated =>
        /\ report.successfulOperations =
               Cardinality({i \in 1..Len(results) : results[i].success})
        /\ report.failedOperations =
               Cardinality({i \in 1..Len(results) : ~results[i].success})
        /\ report.successfulOperations + report.failedOperations = report.processedRepos
        /\ report.processedRepos = report.totalArchivedRepos
        /\ report.totalArchivedRepos = Len(archivedRepos)
        /\ report.results = results

C10_Witness ==
    /\ report.generated
    /\ Len(archivedRepos) = 2
    /\ report.successfulOperations = 1
    /\ report.failedOperations = 1
    /\ exitCode = 1

\* the run got past configuration loading (it is not a --check-config run
\* and the configuration validated)
RunStarted == config.loaded /\ ~FlagIsTrue(parseCliArgs(args), "check-config")

SavedToFile == \E k \in 1..Len(calls) : calls[k].op = "saveToFile"

\* C11: the run always produces a summary report and always attempts to
\* persist the log file before the process exits: whenever a started run has
\* exited (all repositories succeeded, some failed, no repository found, a
\* precondition failed, an exception reached the catch of run()), the
\* summary report was generated and logger.saveToFile was invoked.
C11_AlwaysReportAndSave ==
    (pc = "exited" /\ RunStarted) => (report.generated /\ SavedToFile)

\* the precondition checks of run(), in the order of the code
PreconditionChecks == << "githubAuthOk", "socketLoginOk", "socketAuthOk", "orgOk" >>

\* C12: fatal preconditions.  The checks are made in order before anything
\* else; if GitHub authentication, the scan-service login, the scan-service
\* authentication or the organization verification fails, the failed check
\* is the last thing the run does: the process has exited with status 1,
\* nothing runs after it, discovery did not take place and no repository
\* was unarchived, cloned, modified, pushed or had its scan record deleted
\* (no external call at all was issued).
C12_FatalPreconditions ==
    /\ Len(checks) <= Len(PreconditionChecks)
    /\ \A k \in 1..Len(checks) : checks[k].name = PreconditionChecks[k]
    /\ pc \in {"prepare", "discover", "loop"} => Len(checks) = Len(PreconditionChecks)
    /\ \A k \in 1..Len(checks) :
          ~checks[k].ok =>
              /\ k = Len(checks)
              /\ pc = "exited"
              /\ exitCode = 1
              /\ ~ENABLED Next
              /\ archivedRepos = <<>>
              /\ results = <<>>
              /\ steps = <<>>
              /\ deletionRecords = <<>>
              /\ calls = <<>>

C12_Witness ==
    /\ pc = "exited"
    /\ exitCode = 1
    /\ Len(checks) = 4
    /\ checks[3] = Check("socketAuthOk", TRUE)
    /\ checks[4] = Check("orgOk", FALSE)
    /\ \E n \in RepoNames : ghArchived[n]

HasCheckConfigFlag(as) == \E i \in 1..Len(as) : as[i] = CHECK_CONFIG_FLAG

ConfigIsValid == validateConfig(loadConfig(env, FALSE)) = <<>>

\* C13: with the configuration-check flag on the command line, the run ends
\* right after validation: with a valid configuration the process exits with
\* status 0, with an invalid one with status 1, and in both cases no
\* precondition check was made, no repository was listed and no call on
\* GitHub, the scan service, git or the filesystem was issued.
C13_CheckConfigOnly ==
    (HasCheckConfigFlag(args) /\ pc # "start") =>
        /\ pc = "exited"
        /\ exitCode = IF ConfigIsValid THEN 0 ELSE 1
        /\ checks = <<>>
        /\ archivedRepos = <<>>
        /\ calls = <<>>

\* the delays of the attempts below the cap
Doubling == << 1000, 2000, 4000, 8000, 16000 >>

\* C14: calculateBackoffDelay(n) = min(1000 * 2^n, 30000) for every attempt
\* number n >= 0: every backoff sleep of attempt n lasts 1000, 2000, 4000,
\* 8000, 16000 ms for n = 0..4 (doubling from 1000) and 30000 ms from n = 5
\* onwards; so is the delay the function computes for any attempt number.
C14_BackoffDelay ==
    \A k \in 1..Len(sleeps) :
       LET n == sleeps[k].attemptNumber
           d == sleeps[k].delay
       IN  /\ n >= 0
           /\ n < Len(Doubling) => d = Doubling[n + 1]
           /\ n >= Len(Doubling) => d = 30000
           /\ n > 0 /\ n < Len(Doubling) => d = 2 * Doubling[n]

C14_Witness ==
    /\ Len(sleeps) = 2
    /\ sleeps[1] = [attemptNumber |-> 4, delay |-> 16000]
    /\ sleeps[2] = [attemptNumber |-> 5, delay |-> 30000]

\* number of runs of the git push subprocess for the repository named n
PushCalls(n) == Len(SelectSeq(calls, LAMBDA c : c = Call("push", n)))

\* number of git push subprocess runs that were retries: all the runs but
\* the first one of each repository pushed
PushRetries ==
    Len(SelectSeq(calls, LAMBDA c : c.op = "push"))
        - Cardinality({n \in RepoNames : PushCalls(n) > 0})

\* C15 as stated: a retry budget of 3 attempts, the git push subprocess is
\* executed at most 3 times in total for one Push step.
C15_AtMostThreePushes ==
    \A n \in RepoNames : PushCalls(n) <= MAX_RETRIES

\* C15 (amended): the Push step retries at most MAX_RETRIES = 3 times: the
\* git push subprocess is executed at most 4 times in total (the first
\* attempt and 3 retries), each retry after one backoff sleep (once the
\* repositories are discovered, every step of the run makes as many backoff
\* sleeps as it makes push retries); when every attempt fails the error
\* surfaces as an ordinary fatal Push failure: a failed Push step, a failed
\* OperationResult carrying the error, and the loop goes on.
C15_PushRetryBudget ==
    /\ [](/\ \A n \in RepoNames : PushCalls(n) <= MAX_RETRIES + 1
          /\ (stage = "catch" /\ error = "Git push failed") =>
                 /\ PushCalls(repo.name) = MAX_RETRIES + 1
                 /\ Last(steps) = StepResult("Push", FALSE)
                 /\ pc = "loop"
          /\ \A i \in 1..Len(results) :
                results[i].error = "Git push failed" =>
                    /\ PushCalls(results[i].repoName) = MAX_RETRIES + 1
                    /\ ~results[i].success
                    /\ \E k \in 1..Len(results[i].steps) :
                          results[i].steps[k] = StepResult("Push", FALSE)
                    /\ pc \in {"loop", "exited"})
    /\ [][pc # "discover" =>
             Len(sleeps') - Len(sleeps) = PushRetries' - PushRetries]_vars

C15_Witness ==
    /\ Finished
    /\ Len(results) = 2
    /\ results[1].error = "Git push failed"
    /\ PushCalls(results[1].repoName) = 4
    /\ PushCalls(results[2].repoName) = 2
    /\ results[2].success
    /\ sleeps = << Sleep(0), Sleep(1), Sleep(2), Sleep(0) >>

\* the transient conditions: HTTP 429 / "rate limit", connection refused,
\* timeout, DNS-resolution failure
IsTransient(err) ==
    \/ err.status = 429
    \/ err.message = "rate limit"
    \/ err.code \in {"ECONNREFUSED", "ETIMEDOUT", "ENOTFOUND"}

\* C16: for every network-calling collaborator (repository listing,
\* scan-service calls, push), a retry is attempted only when the error is
\* transient: every error that was followed by a backoff sleep and another
\* attempt is transient, and a call that met another error has thrown it
\* at once, so that an error which is not transient is the last one caught
\* and, as the first error, ends the call after a single attempt with no
\* backoff sleep.
C16_RetryOnlyTransient ==
    attempt.op \in RetryOps =>
        \A k \in 1..Len(attempt.errors) :
           ~IsTransient(attempt.errors[k]) =>
               /\ k = Len(attempt.errors)
               /\ attempt.status = "thrown"
               /\ Len(calls) = k
               /\ Len(sleeps) = k - 1
               /\ k = 1 => sleeps = <<>>

\* the place of the repository named n in the discovered list
Position(n) == CHOOSE i \in 1..Len(archivedRepos) : archivedRepos[i].name = n

\* the calls of the run that remove a clone directory, in order
Removals == SelectSeq(calls, LAMBDA c : c.op = "removeDirectory")

\* C17: in non-dry-run mode, for every repository, removal of its local
\* clone directory is attempted when its pipeline ends, on every outcome
\* (success, fatal step failure, exception), and before the next
\* repository's pipeline starts: there is one removal per finished
\* repository, in processing order, no call on a repository follows the
\* removal of its clone, and every call on a later repository comes after
\* it.  In dry-run mode no removal is attempted.
C17_CloneDirectoryRemoved ==
    config.loaded =>
        IF config.dryRun
        THEN Removals = <<>>
        ELSE /\ Len(Removals) = Len(results)
             /\ \A i \in 1..Len(Removals) : Removals[i].repo = archivedRepos[i].name
             /\ \A p \in 1..Len(calls) :
                   calls[p].op = "removeDirectory" =>
                       \A q \in (p + 1)..Len(calls) :
                          calls[q].repo \in RepoNames =>
                              /\ calls[q].repo # calls[p].repo
                              /\ Position(calls[q].repo) > Position(calls[p].repo)

C17_Witness ==
    /\ Finished
    /\ ~config.dryRun
    /\ Len(results) = 2
    /\ results[1].error = "Git clone failed"
    /\ results[2].success
    /\ Removals = << Call("removeDirectory", results[1].repoName),
                     Call("removeDirectory", results[2].repoName) >>

\* the step list of the repository named n: the one in progress, or the one
\* of its result
StepsOf(n) ==
    IF stage # "idle" /\ repo.name = n THEN steps
    ELSE LET i == CHOOSE i \in 1..Len(results) : results[i].repoName = n
         IN  results[i].steps

\* C19: when the scan-deletion call for a repository returns a not-found
\* response (a non-zero exit whose output contains one of the not-found
\* patterns), deleteRepository returns success = true with the message
\* saying the record was already absent; the repository's DeletionRecord
\* has success = true, its "Delete Repository" step is successful, the
\* pipeline goes on, and with the other steps succeeding its
\* OperationResult.success is true.
C19_NotFoundIsSuccess ==
    /\ \A output \in NotFoundOutputs :
          deleteRepository(FALSE, 1, output) = DeletionResult(TRUE, TRUE, MSG_NOT_FOUND)
    /\ \A k \in 1..Len(deletionRecords) :
          LET d == deletionRecords[k]
          IN  d.message = MSG_NOT_FOUND =>
                  /\ d.success
                  /\ Call("socketDelete", d.repoName) \in {calls[c] : c \in 1..Len(calls)}
                  /\ StepResult("Delete Repository", TRUE) \in
                         {StepsOf(d.repoName)[j] : j \in 1..Len(StepsOf(d.repoName))}
                  /\ \A i \in 1..Len(results) :
                        (results[i].repoName = d.repoName
                           /\ \A j \in 1..Len(results[i].steps) : results[i].steps[j].success)
                        => (results[i].success /\ results[i].error = "none")

C19_Witness ==
    /\ Finished
    /\ Len(deletionRecords) = 2
    /\ deletionRecords[1] = DeletionRecord(results[1].repoName, TRUE, MSG_NOT_FOUND)
    /\ deletionRecords[2].message = MSG_DELETED
    /\ results[1].success
    /\ Len(results[1].steps) = 8
    /\ \A j \in 1..8 : results[1].steps[j].success

\* the canonical step sequence
Canonical ==
    << "Unarchive", "Clone", "Create socket.yml", "Stage", "Commit",
       "Delete Repository", "Push", "Rearchive" >>

\* the step names of st are the first Len(st) names of the canonical sequence
IsCanonicalPrefix(st) ==
    /\ Len(st) <= Len(Canonical)
    /\ \A k \in 1..Len(st) : st[k].name = Canonical[k]

\* C20 as stated: at every point of every run, each repository's step list
\* is a prefix of the canonical sequence, truncated at the first fatal
\* failure (no step follows a failed fatal step); a failed Delete Repository
\* step does not truncate it.
C20_PrefixTruncatedAtFailure ==
    \A st \in StepLists :
       /\ IsCanonicalPrefix(st)
       /\ \A k \in 1..Len(st) :
             (st[k].name \in FatalSteps /\ ~st[k].success) => k = Len(st)

\* C20 (amended): at every point of every run, each repository's step list
\* is a prefix of the canonical sequence (each name at most once, in
\* order), truncated at the first fatal failure except that the Rearchive
\* step follows a failed Push step when the Delete Repository step had
\* failed; a failed Delete Repository step does not truncate it.
C20_CanonicalPrefix ==
    /\ \A st \in StepLists :
          /\ IsCanonicalPrefix(st)
          /\ \A k \in 1..Len(st) :
                (st[k].name \in FatalSteps /\ ~st[k].success) =>
                    \/ k = Len(st)
                    \/ /\ st[k].name = "Push"
                       /\ ~st[k - 1].success
                       /\ Len(st) = k + 1
    /\ \A i \in 1..Len(results) :
          LET st == results[i].steps
          IN  (Len(st) >= 6 /\ st[6] = StepResult("Delete Repository", FALSE))
                  => Len(st) = Len(Canonical)

C20_Witness ==
    \E i \in 1..Len(results) :
       /\ ~results[i].success
       /\ Len(results[i].steps) = Len(Canonical)
       /\ results[i].steps[6] = StepResult("Delete Repository", FALSE)
       /\ results[i].steps[7] = StepResult("Push", FALSE)
       /\ results[i].steps[8].name = "Rearchive"

\* repository n has a result in the list rs with the success flag ok
HasOutcome(rs, n, ok) ==
    \E j \in 1..Len(rs) : rs[j].repoName = n /\ rs[j].success = ok

\* C18: when the pipeline has run twice against the same starting remote
\* state, every repository gets the same OperationResult.success in the
\* second run as in the first; in particular a repository that succeeded
\* in the first run succeeds again.
C18_SameOutcomeTwice ==
    (previous.ran /\ pc = "exited") =>
       \A i \in 1..Len(previous.results) :
          HasOutcome(results, previous.results[i].repoName,
                     previous.results[i].success)

\* what the tolerances of commit and deleteRepository give: a repository
\* that the second run processes gets the success flag it got in the first
SameOutcomeWhenProcessed ==
    previous.ran =>
       \A j \in 1..Len(results) :
          HasOutcome(previous.results, results[j].repoName, results[j].success)

\* a second run that committed nothing and found the repository deleted
ProcessedTwice ==
    /\ previous.ran
    /\ ~previous.dryRun
    /\ \E j \in 1..Len(results) :
          /\ results[j].success
          /\ StepResult("Commit", TRUE) \in {results[j].steps[k] : k \in 1..Len(results[j].steps)}
          /\ \E i \in 1..Len(deletionRecords) : deletionRecords[i].message = MSG_NOT_FOUND

\* the results of the run so far, the pending one included
ResultsSoFar == {results[i] : i \in 1..Len(results)} \cup ({ret} \ {NoResult})

\* the rearchive that follows a successful push failed
RearchiveFailedAfterPush(r) ==
    /\ Len(r.steps) >= 2
    /\ r.steps[Len(r.steps) - 1] = StepResult("Push", TRUE)
    /\ Last(r.steps) = StepResult("Rearchive", FALSE)

\* C21: if the rearchive call returns false or throws after a successful
\* push, a Rearchive step with success = false is recorded and the
\* repository's OperationResult.success stays true: in a non-dry run the
\* result returned after a successful push ends with a Rearchive step whose
\* success flag tells whether GitHub now has the repository archived, a
\* result whose rearchive failed after the push is successful and carries no
\* error, and a run whose results have no other failed step than such
\* rearchives exits with status 0.
C21_RearchiveFailureNonFatal ==
    /\ (stage = "finally" /\ ret.success /\ ~config.dryRun) =>
          /\ Len(ret.steps) >= 2
          /\ ret.steps[Len(ret.steps) - 1] = StepResult("Push", TRUE)
          /\ Last(ret.steps) = StepResult("Rearchive", ghArchived[repo.name])
    /\ \A r \in ResultsSoFar :
          RearchiveFailedAfterPush(r) => (r.success /\ r.error = "none")
    /\ (Finished /\ \A i \in 1..Len(results) :
                       \A k \in 1..Len(results[i].steps) :
                          results[i].steps[k].name # "Rearchive"
                              => results[i].steps[k].success)
          => exitCode = 0

C21_Witness ==
    /\ Finished
    /\ exitCode = 0
    /\ \E i \in 1..Len(results) :
          /\ RearchiveFailedAfterPush(results[i])
          /\ ~ghArchived[results[i].repoName]

\* C22: an exception thrown outside the per-repository loop is fatal to the
\* whole run.  When the catch of run() is reached no repository pipeline is
\* in progress and no result exists; its one step logs the error and exits
\* with status 1, leaving the loop state, the pipeline state and the report
\* as they are; and nothing happens after the process has exited, so no
\* repository pipeline is started afterwards.
C22_FatalOutsideLoop ==
    /\ [](pc = "catch" => (stage = "idle" /\ results = <<>> /\ exitCode = -1))
    /\ [][pc = "catch" =>
             /\ pc' = "exited"
             /\ exitCode' = 1
             /\ calls' = Append(calls, Call("loggerError", 0))
             /\ UNCHANGED << loopVars, pipelineVars, report >>]_vars
    /\ [][pc # "exited"]_vars

\* discovery threw, its retries used up, after the four precondition checks
\* had passed
C22_Witness ==
    /\ pc = "exited"
    /\ exitCode = 1
    /\ Len(checks) = 4
    /\ \A k \in 1..Len(checks) : checks[k].ok
    /\ calls = << Call("removeBaseDirectory", 0), Call("loggerError", 0) >>
    /\ sleeps = << Sleep(0), Sleep(1), Sleep(2) >>
    /\ archivedRepos = <<>>

\* the organization names of the environment
ConfiguredOrgs == {env.GITHUB_ORG, env.SOCKET_ORG}

\* the test of C23: only alphanumerics and hyphens, 1 to 39 characters,
\* neither starting nor ending with a hyphen
OrgNameAsClaimed(name) ==
    /\ Len(name) >= 1
    /\ Len(name) <= 39
    /\ \A i \in 1..Len(name) : name[i] \in AlphaNum \cup {"-"}
    /\ name[1] # "-"
    /\ name[Len(name)] # "-"

\* C23: an organization name (GITHUB_ORG, SOCKET_ORG) passes validation if
\* and only if it consists only of alphanumerics and hyphens, is between 1
\* and 39 characters long, and neither starts nor ends with a hyphen; a name
\* failing the test makes configuration loading exit with status 1.
C23_OrgNameValidation ==
    pc # "start" =>
       /\ config.loaded <=> \A name \in ConfiguredOrgs : OrgNameAsClaimed(Trim(name))
       /\ ~config.loaded => (pc = "exited" /\ exitCode = 1)

\* the calls of the run made for repository n, in order
CallsFor(n) == SelectSeq(calls, LAMBDA c : c.repo = n)

UnarchiveFailed(st) == st # <<>> /\ st[1] = StepResult("Unarchive", FALSE)

\* C24: if the unarchive call fails, the pipeline of that repository aborts
\* at once.  Its step list is exactly [Unarchive(failed)] from then on, its
\* result is failed with the unarchive error, and the calls made for it are
\* the unarchive call and, when the pipeline ends, the removal of the clone
\* directory that the finally block attempts (the directory was never
\* created): no clone, file write, git, scan-deletion, push or rearchive
\* call; the repository is still archived on GitHub and has no deletion
\* record.
C24_UnarchiveFailureAborts ==
    /\ (stage # "idle" /\ UnarchiveFailed(steps)) =>
          /\ steps = << StepResult("Unarchive", FALSE) >>
          /\ stage \in {"catch", "finally"}
          /\ CallsFor(repo.name) = << Call("unarchive", repo.name) >>
          /\ ghArchived[repo.name]
    /\ \A r \in ResultsSoFar :
          UnarchiveFailed(r.steps) =>
             /\ r = OperationResult(r.repoName, FALSE,
                                    << StepResult("Unarchive", FALSE) >>,
                                    "Failed to unarchive repository")
             /\ ghArchived[r.repoName]
             /\ \A i \in 1..Len(deletionRecords) :
                   deletionRecords[i].repoName # r.repoName
    /\ \A i \in 1..Len(results) :
          UnarchiveFailed(results[i].steps) =>
             CallsFor(results[i].repoName) =
                << Call("unarchive", results[i].repoName),
                   Call("removeDirectory", results[i].repoName) >>

\* a finished run in which the unarchive of one repository failed and a
\* later repository went through its whole pipeline
C24_Witness ==
    /\ Finished
    /\ \E i, j \in 1..Len(results) :
          /\ i < j
          /\ UnarchiveFailed(results[i].steps)
          /\ results[j].success
          /\ Len(results[j].steps) = Len(Canonical)

\* the scan deletion failed and the push then failed fatally
DeletionThenPushFailed(st) ==
    /\ Len(st) >= 7
    /\ st[6] = StepResult("Delete Repository", FALSE)
    /\ st[7] = StepResult("Push", FALSE)

\* C25: on the failure path of an originally archived repository, if the
\* scan-deletion step had failed before the fatal failure (the push then
\* failed), the orchestrator attempts the rearchive once and records a
\* Rearchive step before returning the failed OperationResult: the result
\* ends with the Rearchive step right after the failed Push step, exactly
\* one rearchive call was made for the repository, the step's success flag
\* tells whether GitHub has the repository archived again, and the result is
\* failed with the push error whatever the rearchive outcome.
C25_RearchiveOnFailurePath ==
    \A r \in ResultsSoFar :
       DeletionThenPushFailed(r.steps) =>
          /\ ArchivedAtDiscovery(r.repoName)
          /\ Len(r.steps) = 8
          /\ r.steps[8] = StepResult("Rearchive", ghArchived[r.repoName])
          /\ Len(SelectSeq(calls, LAMBDA c : c = Call("rearchive", r.repoName))) = 1
          /\ ~r.success
          /\ r.error = "Git push failed"

\* two such results, one rearchived and one not
C25_Witness ==
    \E i, j \in 1..Len(results) :
       /\ DeletionThenPushFailed(results[i].steps)
       /\ DeletionThenPushFailed(results[j].steps)
       /\ results[i].steps[8].success
       /\ ~results[j].steps[8].success

\* the subprocess ended without a zero exit code: a non-zero code, or killed
KilledOrNonZero(end) == end.kind = "signaled" \/ (end.kind = "exited" /\ end.code # 0)

\* what the subprocess printed is a not-found response
NotFoundResponse(call) ==
    call.stderr \in NotFoundOutputs \/ call.stdout \in NotFoundOutputs

\* C26: a timed-out scan-deletion manifests as an ordinary failure.  Outside
\* dry-run, a subprocess that is killed by its timeout, or ends without a
\* zero exit code, makes deleteRepository return success = false with the
\* failure message unless its output is a not-found response; and
\* deleteRepository returns success = true only for exit code 0, dry-run or
\* a not-found response.
C26_TimeoutIsFailure ==
    (pc = "delete" /\ attempt.status = "returned") =>
       LET result == deletionRecords[1]
       IN  /\ (~config.dryRun /\ KilledOrNonZero(attempt.end)
                  /\ ~NotFoundResponse(attempt))
              => (~result.success /\ result.message = MSG_FAILED)
           /\ result.success =>
                 \/ config.dryRun
                 \/ attempt.end = Exited(0)
                 \/ KilledOrNonZero(attempt.end) /\ NotFoundResponse(attempt)

\* the subprocess was killed by its timeout having printed nothing
C26_Witness ==
    /\ pc = "delete"
    /\ attempt = SocketCall(Signaled(SIGTERM), "", "", "returned")
    /\ ~config.dryRun
    /\ deletionRecords = << DeletionRecord(RepoName(1), FALSE, MSG_FAILED) >>

\* the followed `git commit` exits non-zero with "nothing to commit" or "no
\* changes added" in its output (stderr, or stdout when stderr is empty)
NothingToCommit ==
    /\ attempt.gitUser = "configured"
    /\ ~attempt.exitZero
    /\ commitOutput(attempt.stderr, attempt.stdout)
           \in {"nothing to commit", "no changes added"}

\* the global git identity is unset or cannot be written to the clone, or
\* the followed `git commit` exits non-zero with any other output
CommitFails ==
    \/ attempt.gitUser # "configured"
    \/ /\ ~attempt.exitZero
       /\ commitOutput(attempt.stderr, attempt.stdout)
              \notin {"nothing to commit", "no changes added"}

\* the steps of repository 1: those of its result, or those in progress
CommitSteps == IF results # <<>> THEN results[1].steps ELSE steps

\* C27: when git commit exits non-zero with output containing "nothing to
\* commit" (or "no changes added"), the Commit step is recorded as
\* successful and the pipeline goes on to the scan deletion and the push:
\* the deletion is the next step, and the finished pipeline has a deletion
\* record and has run git push.  Any other non-zero exit, or an unset global
\* git identity, is a fatal Commit failure: the step list ends at the failed
\* Commit step, the result is failed, and neither a scan deletion nor a push
\* is ever attempted.
C27_NothingToCommitTolerated ==
    Len(CommitSteps) >= 5 =>
       /\ NothingToCommit =>
             /\ CommitSteps[5] = StepResult("Commit", TRUE)
             /\ Len(CommitSteps) = 5 => stage = "Delete Repository"
             /\ ret # NoResult \/ results # <<>> =>
                   /\ Len(CommitSteps) >= 7
                   /\ CommitSteps[6].name = "Delete Repository"
                   /\ CommitSteps[7].name = "Push"
                   /\ Len(deletionRecords) = 1
                   /\ PushCalls(RepoName(1)) >= 1
       /\ CommitFails =>
             /\ CommitSteps = SubSeq(CommitSteps, 1, 4) \o << StepResult("Commit", FALSE) >>
             /\ stage \in {"catch", "finally", "idle"}
             /\ deletionRecords = <<>>
             /\ \A k \in 1..Len(calls) : calls[k].op \notin {"socketDelete", "push"}
             /\ \A r \in ResultsSoFar : ~r.success
       /\ CommitSteps[5].success <=> ~CommitFails

\* the run has ended with a successful result after a commit that found
\* nothing to commit, git having printed it on stdout
C27_Witness ==
    /\ Finished
    /\ attempt = GitCommitCall("configured", FALSE, "", "nothing to commit")
    /\ results[1].success
    /\ exitCode = 0

\* what a step list of repository n says about its scan deletion: one
\* (repoName, success) pair per "Delete Repository" step, in order
DeletionsOf(n, st) ==
    LET del == SelectSeq(st, LAMBDA s : s.name = "Delete Repository")
    IN  [i \in 1..Len(del) |-> [repoName |-> n, success |-> del[i].success]]

\* the same for the results rs[1..k], in processing order
RECURSIVE DeletionsOfResults(_, _)
DeletionsOfResults(rs, k) ==
    IF k = 0 THEN <<>>
    ELSE DeletionsOfResults(rs, k - 1) \o DeletionsOf(rs[k].repoName, rs[k].steps)

\* the scan deletion steps executed so far: those of the finished pipelines
\* followed by those of the pipeline in progress
DeletionSteps ==
    DeletionsOfResults(results, Len(results))
        \o (IF stage = "idle" THEN <<>> ELSE DeletionsOf(repo.name, steps))

\* C28: the DeletionRecord list is append-only.  It gets exactly one record
\* each time the pipeline of a repository executes the scan-deletion step,
\* whether the deletion succeeds, reports a failure or throws, and none in
\* any other step; and the records, in order, carry the repoName and the
\* success of the "Delete Repository" steps of the repositories, in
\* processing order (so a pipeline that never reaches the step has no record,
\* and no step list has more than one such step).
C28_DeletionRecordsFollowSteps ==
    /\ [](/\ [i \in 1..Len(deletionRecords) |->
                 [repoName |-> deletionRecords[i].repoName,
                  success  |-> deletionRecords[i].success]] = DeletionSteps
          /\ \A st \in StepLists :
                Len(SelectSeq(st, LAMBDA s : s.name = "Delete Repository")) <= 1)
    /\ [][IF stage = "Delete Repository" /\ stage' # "Delete Repository"
          THEN /\ Len(deletionRecords') = Len(deletionRecords) + 1
               /\ SubSeq(deletionRecords', 1, Len(deletionRecords)) = deletionRecords
               /\ Last(deletionRecords').repoName = repo.name
               /\ Last(deletionRecords').success = Last(steps').success
               /\ Last(steps').name = "Delete Repository"
          ELSE deletionRecords' = deletionRecords]_vars

\* the run has ended with two results and one deletion record, a failed one
\* of the second repository: the pipeline of the first repository never
\* reached the scan deletion
C28_Witness ==
    /\ Finished
    /\ Len(results) = 2
    /\ ~HasStep(results[1].steps, "Delete Repository")
    /\ Len(deletionRecords) = 1
    /\ deletionRecords[1].repoName = results[2].repoName
    /\ ~deletionRecords[1].success
    /\ \E i \in 1..Len(results[2].steps) :
          results[2].steps[i] = StepResult("Delete Repository", FALSE)

\* the step list of the pipeline of repository n: that of its result, or the
\* one in progress
StepsOfRepo(n) ==
    IF \E i \in 1..Len(results) : results[i].repoName = n
    THEN (CHOOSE r \in {results[i] : i \in 1..Len(results)} : r.repoName = n).steps
    ELSE IF stage # "idle" /\ repo.name = n THEN steps ELSE <<>>

\* C30: in a run that is not a dry run, git push is invoked for a repository
\* only after the unarchive call for that repository was made and returned
\* success in the same pipeline; the rearchive call for a repository is
\* issued only after a push has been attempted for it; and the calls made
\* for different repositories never interleave: between two calls for one
\* repository every call is for that repository (a call that does not
\* follow a call for the same repository is the first one for it).
C30_CallOrder ==
    (config.loaded /\ ~config.dryRun) =>
       /\ \A n \in RepoNames :
             LET cs  == CallsFor(n)
                 ops == [i \in 1..Len(cs) |-> cs[i].op]
             IN  \A k \in 1..Len(ops) :
                    /\ ops[k] = "push" =>
                          /\ \E j \in 1..(k - 1) : ops[j] = "unarchive"
                          /\ StepsOfRepo(n) # <<>>
                          /\ StepsOfRepo(n)[1] = StepResult("Unarchive", TRUE)
                    /\ ops[k] = "rearchive" => \E j \in 1..(k - 1) : ops[j] = "push"
       /\ \A k \in 2..Len(calls) :
             (calls[k].repo \in RepoNames /\ calls[k - 1].repo # calls[k].repo) =>
                \A i \in 1..(k - 1) : calls[i].repo # calls[k].repo

\* a run that is not a dry run has ended after pushing and rearchiving two
\* repositories, the second one after a failed scan deletion and a failed
\* push
C30_Witness ==
    /\ Finished
    /\ ~config.dryRun
    /\ Len(results) = 2
    /\ results[1].success
    /\ DeletionThenPushFailed(results[2].steps)
    /\ \A n \in RepoNames :
          /\ PushCalls(n) >= 1
          /\ \E k \in 1..Len(calls) : calls[k] = Call("rearchive", n)

\* the first empty page of a listing
FirstEmptyPage(pages) ==
    CHOOSE k \in 1..(Len(pages) + 1) :
       /\ PageOf(pages, k) = <<>>
       /\ \A j \in 1..(k - 1) : PageOf(pages, j) # <<>>

\* the repositories of pages 1..n of a listing, in page order
RECURSIVE ReposUpTo(_, _)
ReposUpTo(pages, n) ==
    IF n = 0 THEN <<>> ELSE ReposUpTo(pages, n - 1) \o PageOf(pages, n)

\* the listing was interrupted by a rate-limit error after a page with an
\* archived repository had been fetched, was started again, and returned
InterruptedAndRetried ==
    /\ attempt.status = "returned"
    /\ attempt.retries >= 1
    /\ \E i \in 2..Len(calls) :
          /\ calls[i] = Call("listForOrg", 1)
          /\ calls[i - 1].repo >= 2
          /\ \E r \in 1..Len(attempt.pages[1]) : attempt.pages[1][r].archived

\* C29: listArchivedRepositories returns exactly the repositories with
\* archived = true of pages 1..k-1, page k being the first empty page, in
\* page order, none twice and none lost, also when rate-limit errors
\* interrupt the pagination and the call is retried; it retries at most
\* MAX_RETRIES times, sleeping before each retry, and throws the error then,
\* or at once when the error is not a rate-limit error.
C29_ListingExact ==
    LET pages   == attempt.pages
        listed  == ReposUpTo(pages, FirstEmptyPage(pages) - 1)
        wanted  == SelectSeq(listed, LAMBDA r : r.archived = TRUE)
    IN  /\ attempt.retries <= MAX_RETRIES
        /\ Len(sleeps) = attempt.retries
        /\ attempt.status = "returned" =>
              /\ archivedRepos = [i \in 1..Len(wanted) |-> Descriptor(wanted[i].name)]
              /\ \A i, j \in 1..Len(archivedRepos) :
                    archivedRepos[i].name = archivedRepos[j].name => i = j
              /\ \A p \in 1..Len(calls) : calls[p].repo <= FirstEmptyPage(pages)
        /\ attempt.status = "thrown" =>
              /\ archivedRepos = <<>>
              /\ \/ attempt.error.message \notin {"403", "rate limit"}
                 \/ attempt.retries = MAX_RETRIES

\* a listing of two pages with archived repositories on both and one that
\* is not archived has been returned after an interrupted pagination
C29_Witness ==
    /\ InterruptedAndRetried
    /\ Len(attempt.pages) = 2
    /\ Len(archivedRepos) >= 2
    /\ archivedRepos[1].name < archivedRepos[Len(archivedRepos)].name
    /\ archivedRepos[Len(archivedRepos)].name > Len(attempt.pages[1])
    /\ Len(archivedRepos) < Len(ReposUpTo(attempt.pages, 2))

\* the longest step list of a pipeline: the seven steps and the rearchive
MaxSteps == 8

\* C31: when every collaborator call eventually returns and the discovery
\* yields a finite list, every run eventually reaches process exit; every
\* pipeline that was begun ends, after at most MaxSteps steps, and when it
\* ends the repository has its result, successful or failed; and git push
\* is retried at most MAX_RETRIES times per repository.
C31_RunTerminates ==
    /\ <>(pc = "exited")
    /\ (stage # "idle") ~> (stage = "idle")
    /\ [][(stage # "idle" /\ stage' = "idle") =>
             /\ Len(results') = Len(results) + 1
             /\ Last(results').repoName = repo.name
             /\ Last(results').success \in BOOLEAN
             /\ Last(results').steps = steps]_vars
    /\ [](/\ Len(steps) <= MaxSteps
          /\ \A n \in RepoNames : PushCalls(n) <= 1 + MAX_RETRIES)

\* the run has exited after the pipelines of two repositories, one of which
\* used up the push retries
C31_Witness ==
    /\ Finished
    /\ Len(results) = 2
    /\ \E n \in RepoNames : PushCalls(n) = 1 + MAX_RETRIES
    /\ \E i \in 1..2 : Len(results[i].steps) = MaxSteps

\* supporting C31, under ListLiveSpec: the listing of a finite sequence of
\* pages returns or throws, after at most MAX_RETRIES retries
ListingTerminates ==
    /\ <>(attempt.status \in {"returned", "thrown"})
    /\ [](attempt.retries <= MAX_RETRIES)

\* SocketCLIAuth.login has succeeded in this run
LoginSucceeded ==
    \E i \in 1..Len(checks) : checks[i] = Check("socketLoginOk", TRUE)

\* C32: once SocketCLIAuth.login has succeeded, every path on which the
\* process exits calls logout first, so that at exit SOCKET_CLI_API_TOKEN
\* and SOCKET_CLI_ORG_SLUG are cleared and isLoggedIn() is false; and a
\* logout when not logged in changes nothing and returns true.
C32_LogoutBeforeExit ==
    /\ (pc = "exited" /\ LoginSucceeded) =>
          /\ ~isAuthenticated
          /\ env.SOCKET_CLI_API_TOKEN = <<>>
          /\ env.SOCKET_CLI_ORG_SLUG = <<>>
    /\ ~isAuthenticated =>
          /\ logout(isAuthenticated) = isAuthenticated
          /\ logoutEnv(isAuthenticated, env) = env
          /\ logoutReturns(isAuthenticated)

\* the process has exited logged in: after a failed verification of the
\* Socket.dev authentication or of the organization, or after a discovery
\* that found no archived repository
ExitedLoggedIn ==
    /\ pc = "exited"
    /\ LoginSucceeded
    /\ isAuthenticated
    /\ env.SOCKET_CLI_API_TOKEN # <<>>

\* supporting C32: the paths that end in cleanup() (the end of the loop and
\* the catch of run()) leave the process logged out, and the process exits
\* logged in exactly when it exits at one of the three process.exit calls
\* between the login and the loop
C32_LogoutOnCleanupPaths ==
    /\ (pc = "exited" /\ (report.generated
                            \/ \E k \in 1..Len(calls) : calls[k].op = "loggerError")) =>
          ~isAuthenticated
    /\ ExitedLoggedIn =>
          \/ checks[Len(checks)] \in {Check("socketAuthOk", FALSE), Check("orgOk", FALSE)}
          \/ /\ exitCode = 0
             /\ archivedRepos = <<>>
             /\ Len(checks) = 4
    /\ (pc = "exited" /\ LoginSucceeded /\ ~ExitedLoggedIn) =>
          /\ ~isAuthenticated
          /\ env.SOCKET_CLI_API_TOKEN = <<>>
          /\ env.SOCKET_CLI_ORG_SLUG = <<>>

\* the rank of a level, debug < info < warn < error
Rank(level) ==
    CASE level = "debug" -> 0
      [] level = "info"  -> 1
      [] level = "warn"  -> 2
      [] level = "error" -> 3

\* the calls of the logger so far that were made at the success level, and
\* those made at one of the four ranked levels with at least the rank of
\* the configured level
SuccessCalls == SelectSeq(calls, LAMBDA c : c.op = "success")
RankedCalls ==
    SelectSeq(calls, LAMBDA c : c.op # "success" /\ Rank(c.op) >= Rank(logger.logLevel))

\* the upper-cased name of a level, as the console shows it
Tag(level) ==
    CASE level = "debug"   -> "DEBUG"
      [] level = "info"    -> "INFO"
      [] level = "warn"    -> "WARN"
      [] level = "error"   -> "ERROR"
      [] level = "success" -> "SUCCESS"

\* the buffer entries and the console lines of a sequence of calls
EntriesOf(cs) == [i \in 1..Len(cs) |-> [level |-> cs[i].op, message |-> cs[i].repo]]
LinesOf(cs) == [i \in 1..Len(cs) |-> [tag |-> Tag(cs[i].op), message |-> cs[i].repo]]

\* supporting C33: at each of the four levels, a message of level debug,
\* info, warn or error is written to the console and buffered if and only
\* if its rank is at least the configured level, and every success-level
\* message is buffered
C33_RankedLevelsFiltered ==
    logger.logLevel \in {"debug", "info", "warn", "error"} =>
       /\ SelectSeq(logger.logs, LAMBDA e : e.level # "success") = EntriesOf(RankedCalls)
       /\ SelectSeq(logger.console, LAMBDA l : l.tag # "SUCCESS") = LinesOf(RankedCalls)
       /\ SelectSeq(logger.logs, LAMBDA e : e.level = "success") = EntriesOf(SuccessCalls)

\* supporting C33: at each of the four levels no [SUCCESS] line is ever
\* written to the console
C33_SuccessNeverWritten ==
    logger.logLevel \in {"debug", "info", "warn", "error"} =>
       \A i \in 1..Len(logger.console) : logger.console[i].tag # "SUCCESS"

\* C33: at log level info or debug, every success-level message is written
\* to the console as a [SUCCESS] line as well as appended to the in-memory
\* log buffer; and at each of the four levels a message of level debug,
\* info, warn or error is written and buffered if and only if its rank is
\* at least the configured level.
C33_SuccessOnConsole ==
    /\ logger.logLevel \in {"debug", "info", "warn", "error"} =>
          /\ SelectSeq(logger.logs, LAMBDA e : e.level # "success")
                = EntriesOf(RankedCalls)
          /\ SelectSeq(logger.console, LAMBDA l : l.tag # "SUCCESS")
                = LinesOf(RankedCalls)
    /\ logger.logLevel \in {"debug", "info"} =>
          /\ SelectSeq(logger.logs, LAMBDA e : e.level = "success")
                = EntriesOf(SuccessCalls)
          /\ SelectSeq(logger.console, LAMBDA l : l.tag = "SUCCESS")
                = LinesOf(SuccessCalls)

====
